---------------------------- MODULE Spec2Model ----------------------------
(***************************************************************************)
(* ROSHN PULSE Module 3 - the extraction engine of src/extractor.py and   *)
(* the result record of src/schema.py, as a state machine.                *)
(*                                                                         *)
(* Texts are TLA+ strings, read character by character: Python's str      *)
(* methods (lower, strip, in, startswith, len) and every regular          *)
(* expression of the engine are operators over the characters.            *)
(***************************************************************************)
EXTENDS Integers, Sequences, FiniteSets, TLC

(***************************************************************************)
(* Python str and re character classes                                     *)
(***************************************************************************)
\* Optional[T]: None, or Some(x) for a value x
None == << >>

Some(x) == << x >>

Char(s, i) == SubSeq(s, i, i)

CharsOf(s) == { Char(s, i) : i \in 1..Len(s) }

UpperLetters == "ABCDEFGHIJKLMNOPQRSTUVWXYZ"

LowerLetters == "abcdefghijklmnopqrstuvwxyz"

DigitChars == "0123456789"

UpperSet == CharsOf(UpperLetters)

LowerSet == CharsOf(LowerLetters)

DigitSet == CharsOf(DigitChars)

\* re: \s
Whitespace == {" ", "\n", "\t", "\r", "\f"}

\* re: \w
WordSet == UpperSet \cup LowerSet \cup DigitSet \cup {"_"}

\* re: \d
IsDigit(c) == c \in DigitSet

IsWord(c) == c \in WordSet

IsSpace(c) == c \in Whitespace

Min(S) == CHOOSE x \in S : \A y \in S : x <= y

Max(S) == CHOOSE x \in S : \A y \in S : x >= y

\* str.lower(), character by character
ToLower ==
    [ c \in UpperSet |->
        Char(LowerLetters, CHOOSE i \in 1..Len(UpperLetters) : Char(UpperLetters, i) = c) ]

LowerChar(c) == IF c \in UpperSet THEN ToLower[c] ELSE c

\* str.lower()
RECURSIVE Lower(_)
Lower(s) ==
    IF Len(s) <= 1 THEN LowerChar(s)
    ELSE LET h == Len(s) \div 2
         IN Lower(SubSeq(s, 1, h)) \o Lower(SubSeq(s, h + 1, Len(s)))

\* s[i:] (1-based i)
From(s, i) == SubSeq(s, i, Len(s))

\* s.startswith(k, i-1): k occurs in s at position i
At(s, i, k) == i >= 1 /\ i + Len(k) - 1 <= Len(s) /\ SubSeq(s, i, i + Len(k) - 1) = k

\* s.startswith(k)
StartsWith(s, k) == At(s, 1, k)

\* k in s
Contains(s, k) == \E i \in 1..(Len(s) - Len(k) + 1) : At(s, i, k)

\* str.strip()
Strip(s) ==
    LET keep == { i \in 1..Len(s) : ~IsSpace(Char(s, i)) }
    IN IF keep = {} THEN "" ELSE SubSeq(s, Min(keep), Max(keep))

\* str.lstrip(chars)
LStripChars(s, chars) ==
    LET keep == { i \in 1..Len(s) : Char(s, i) \notin chars }
    IN IF keep = {} THEN "" ELSE From(s, Min(keep))

\* any(k in s for k in ks), ks a list
AnyIn(s, ks) == \E i \in 1..Len(ks) : Contains(s, ks[i])

\* the end (exclusive) of the longest run of characters satisfying a class, from i
RunEnd(s, i, Class(_)) ==
    LET stops == { j \in i..Len(s) : ~Class(Char(s, j)) }
    IN IF stops = {} THEN Len(s) + 1 ELSE Min(stops)

\* re: \b at position i (between s[i-1] and s[i])
WordBoundary(s, i) ==
    LET before == i > 1 /\ i - 1 <= Len(s) /\ IsWord(Char(s, i - 1))
        after  == i >= 1 /\ i <= Len(s) /\ IsWord(Char(s, i))
    IN before # after


(***************************************************************************)
(* src/schema.py: the keyword lists, in the order the source lists them    *)
(***************************************************************************)
TASK_COMPLETION_KEYWORDS ==
    << "completed", "finished", "done", "installed", "poured",
       "erected", "built", "constructed", "laid", "placed",
       "achieved", "delivered", "accomplished", "continued",
       "installation", "welding", "approved" >>

BLOCKER_KEYWORDS ==
    << "delayed", "blocked", "waiting", "shortage", "issue",
       "problem", "challenge", "obstacle", "pending", "hold",
       "unable", "cannot", "failed", "missing", "unavailable" >>

\* the categories in the opposite order
INCIDENT_TYPES_REVERSED == << "environmental", "quality", "safety" >>

\* INCIDENT_KEYWORDS: a dict, iterated in insertion order
INCIDENT_TYPES == << "safety", "quality", "environmental" >>

INCIDENT_KEYWORDS ==
    [ safety |-> << "injury", "accident", "unsafe", "hazard", "ppe violation",
                    "near miss", "first aid", "safety alert", "incident",
                    "safety incident", "fall", "tipped over", "ambulance",
                    "hospital", "injured" >>,
      quality |-> << "defect", "rework", "non-conformance", "quality issue",
                     "failed inspection", "substandard" >>,
      environmental |-> << "spill", "pollution", "environmental", "waste",
                           "contamination" >> ]

SITE_NAMES ==
    << "SEDRA", "ALAROUS", "ALFULWA", "MARAFY", "MARAFY Waterfront",
       "Marina East", "Residential", "Coastal Development" >>

(***************************************************************************)
(* The language backend (spaCy, loaded in __init__): doc.sents.  Each      *)
(* backend is a fixed function from a text to its sentences' texts; the    *)
(* sentences partition the text.  A sentence ends after a word that ends   *)
(* in a terminator and is followed by whitespace (or the end of the text), *)
(* and, for the line-breaking backends, at every line break.  The          *)
(* whitespace between two sentences goes to the earlier one, under "lead"  *)
(* to the later one.                                                       *)
(***************************************************************************)
Backends == {"punct", "colon", "lead"}

Terminators(b) == IF b = "colon" THEN {".", "!", "?", ":"} ELSE {".", "!", "?"}

BreaksLines(b) == b \in {"colon", "lead"}

\* the indices of the characters that end a sentence
SentEnds(b, text) ==
    { j \in 1..Len(text) :
        /\ ~IsSpace(Char(text, j))
        /\ j = Len(text) \/ IsSpace(Char(text, j + 1))
        /\ \/ Char(text, j) \in Terminators(b)
           \/ /\ BreaksLines(b)
              /\ "\n" \in CharsOf(SubSeq(text, j + 1, RunEnd(text, j + 1, IsSpace) - 1)) }

\* the index of the last character of each sentence
SentCuts(b, text) ==
    LET cut(j) == LET k == RunEnd(text, j + 1, IsSpace) - 1
                  IN IF b = "lead" /\ k < Len(text) THEN j ELSE k
    IN { cut(j) : j \in SentEnds(b, text) } \cup (IF Len(text) > 0 THEN {Len(text)} ELSE {})

RECURSIVE Pieces(_, _, _)
Pieces(text, start, cuts) ==
    IF cuts = {} THEN << >>
    ELSE LET c == Min(cuts)
         IN << SubSeq(text, start, c) >> \o Pieces(text, c + 1, cuts \ {c})

\* list(doc.sents), each sentence by its text
Sentences(b, text) == Pieces(text, 1, SentCuts(b, text))

(***************************************************************************)
(* Lists                                                                   *)
(***************************************************************************)
\* sorted(S)
RECURSIVE Sorted(_)
Sorted(S) == IF S = {} THEN << >> ELSE << Min(S) >> \o Sorted(S \ {Min(S)})

\* [i for i in 1..n if P(i)], ascending
SelectIdx(n, P(_)) == Sorted({ i \in 1..n : P(i) })

\* "; ".join(parts)
RECURSIVE Join(_, _)
Join(parts, sep) ==
    IF Len(parts) = 0 THEN ""
    ELSE IF Len(parts) = 1 THEN parts[1]
    ELSE parts[1] \o sep \o Join(Tail(parts), sep)

\* re.finditer: the matches of a pattern from position pos on, left to right, each
\* search resuming where the previous match ended.  matchAt[p] is the match that
\* starts at p (Some record, its end, exclusive, in .stop), or None.
RECURSIVE FindIter(_, _)
FindIter(matchAt, pos) ==
    LET starts == { p \in DOMAIN matchAt : p >= pos /\ matchAt[p] # None }
    IN IF starts = {} THEN << >>
       ELSE LET m == matchAt[Min(starts)][1]
            IN << m >> \o FindIter(matchAt, m.stop)

\* a if it is not None, else b
OrElse(a, b) == IF a # None THEN a ELSE b

\* the first entry of the sequence f that is not None, or None
FirstSome(f) ==
    IF \A k \in DOMAIN f : f[k] = None THEN None
    ELSE f[Min({ k \in DOMAIN f : f[k] # None })]

\* the last entry of f that is not None, or None
LastSome(f) ==
    IF \A k \in DOMAIN f : f[k] = None THEN None
    ELSE f[Max({ k \in DOMAIN f : f[k] # None })]

(***************************************************************************)
(* _extract_incidents, Pass 1: the header-block pattern                    *)
(*   \bSAFETY\s+INCIDENT\b[\s\-:]*(\w+)?:?\s*(.+?)                         *)
(*        (?=\n\n(?:Additionally|Crew count)|\Z)     IGNORECASE | DOTALL   *)
(***************************************************************************)
\* A real incident should have at least 80 characters
MIN_INCIDENT_LEN == 80

IsHeaderSep(c) == IsSpace(c) \/ c \in {"-", ":"}

\* (?=\n\n(?:Additionally|Crew count)|\Z) at position t of the lowered text
BlockBoundary(low, t) ==
    \/ t = Len(low) + 1
    \/ /\ At(low, t, "\n\n")
       /\ At(low, t + 2, "additionally") \/ At(low, t + 2, "crew count")

\* \bSAFETY\s+INCIDENT\b at p, r being the end of the whitespace after SAFETY:
\* the position after the match, or 0
HeaderStopFrom(low, p, r) ==
    IF /\ At(low, p, "safety")
       /\ WordBoundary(low, p)
       /\ r > p + 6
       /\ At(low, r, "incident")
       /\ WordBoundary(low, r + 8)
    THEN r + 8 ELSE 0

\* the position after \bSAFETY\s+INCIDENT\b matched at p, or 0
HeaderStop(low, p) == HeaderStopFrom(low, p, RunEnd(low, p + 6, IsSpace))

\* a match of the header-block pattern: group(0) is text[start..stop-1],
\* group(1) the severity word
HeaderMatch(text, p, stop, group1) ==
    Some([ start |-> p, stop |-> stop,
           group0 |-> SubSeq(text, p, stop - 1), group1 |-> group1 ])

\* (\w+)? having matched text[f..to-1]: the group, None when it is empty
SeverityWord(text, f, to) == IF to > f THEN Some(SubSeq(text, f, to - 1)) ELSE None

\* (.+?)(?=...) from a, after (\w+)? ended at g, :? at h and \s* at a
HeaderFromBody(text, low, p, f, g, h, a) ==
    IF a <= Len(text)
    THEN \* (.+?) takes text[a] and grows to the first boundary
         HeaderMatch(text, p,
                     Min({ t \in (a + 1)..(Len(text) + 1) : BlockBoundary(low, t) }),
                     SeverityWord(text, f, g))
    ELSE \* nothing is left for (.+?): the last greedy part gives one character back
         HeaderMatch(text, p, Len(text) + 1,
                     SeverityWord(text, f, IF a > h \/ h > g THEN g ELSE g - 1))

\* \s* from h
HeaderFromColon(text, low, p, f, g, h) ==
    HeaderFromBody(text, low, p, f, g, h, RunEnd(text, h, IsSpace))

\* :? from g
HeaderFromWord(text, low, p, f, g) ==
    HeaderFromColon(text, low, p, f, g,
                    IF g <= Len(text) /\ Char(text, g) = ":" THEN g + 1 ELSE g)

\* [\s\-:]*(\w+)? from e, the position after the header words (0: no header)
HeaderFromStop(text, low, p, e) ==
    IF e = 0 \/ e > Len(text) THEN None
    ELSE HeaderFromWord(text, low, p, RunEnd(text, e, IsHeaderSep),
                        RunEnd(text, RunEnd(text, e, IsHeaderSep), IsWord))

\* the match of the header-block pattern that starts at p
HeaderMatchAt(text, low, p) == HeaderFromStop(text, low, p, HeaderStop(low, p))

HeaderMatchesIn(text, low) ==
    FindIter([ p \in 1..Len(text) |-> HeaderMatchAt(text, low, p) ], 1)

\* list(re.finditer(incident_header_pattern, text, ...))
HeaderMatches(text) == HeaderMatchesIn(text, Lower(text))

\* the de-duplication loop: the matches kept, in order
FinalMatches(matches) ==
    LET keep(i) ==
            LET match_text == Strip(matches[i].group0)
            IN /\ ~(Len(match_text) < MIN_INCIDENT_LEN)
               /\ ~\E j \in 1..Len(matches) :
                      /\ j # i
                      /\ Contains(matches[j].group0, match_text)
                      /\ Len(match_text) < Len(matches[j].group0)
        idx == SelectIdx(Len(matches), keep)
    IN [ k \in 1..Len(idx) |-> matches[idx[k]] ]

MAJOR_WORDS == << "major", "serious", "severe", "critical" >>

MODERATE_WORDS == << "moderate", "significant" >>

\* severity from a lowered text: the keyword scan shared by both passes
ScanSeverity(low) ==
    IF AnyIn(low, MAJOR_WORDS) THEN "major"
    ELSE IF AnyIn(low, MODERATE_WORDS) THEN "moderate"
    ELSE "minor"

\* severity of a header block when a header label, if given, decides alone
BlockSeverityByLabel(m) ==
    IF m.group1 # None /\ Lower(m.group1[1]) \in {"major", "moderate", "minor"}
    THEN Lower(m.group1[1])
    ELSE ScanSeverity(Lower(m.group0))

\* severity of a header block
BlockSeverity(m) ==
    IF m.group1 # None /\ Lower(m.group1[1]) = "major" THEN "major"
    ELSE ScanSeverity(Lower(m.group0))

(***************************************************************************)
(* _extract_action_taken: five patterns, IGNORECASE                        *)
(***************************************************************************)
\* (?:k1|k2|...) at p of the lowered text: the position after the first
\* alternative that matches, or 0.  (No two alternatives of any group of the
\* engine's patterns match at one position.)
AltStop(low, p, alts) ==
    LET hit == { i \in 1..Len(alts) : At(low, p, alts[i]) }
    IN IF hit = {} THEN 0 ELSE p + Len(alts[Min(hit)])

\* re: $ without MULTILINE, at position t
AtDollar(s, t) == t = Len(s) + 1 \/ (t = Len(s) /\ Char(s, t) = "\n")

\* the position of the first newline from cs on, or of the text's end
LineEnd(text, cs) == Min({ j \in cs..Len(text) : Char(text, j) = "\n" } \cup {Len(text) + 1})

\* the first position after cs, up to nl, where (?:\.|$) matches, or 0
FirstStop(text, cs, nl) ==
    LET ends == { t \in (cs + 1)..nl :
                    AtDollar(text, t) \/ (t <= Len(text) /\ Char(text, t) = ".") }
    IN IF cs > Len(text) \/ ends = {} THEN 0 ELSE Min(ends)

\* the position after (?:\.|$) matched at t (0: no match)
AfterStop(text, t) ==
    IF t # 0 /\ t <= Len(text) /\ Char(text, t) = "." THEN t + 1 ELSE t

\* (.+?)(?:\.|$) with the capture starting at cs: the end (exclusive) of the
\* match, or 0.  "." does not match a newline.
LazyToStop(text, cs) == AfterStop(text, FirstStop(text, cs, LineEnd(text, cs)))

\* the match from start to stop (exclusive), or None when stop is 0
Span(start, stop) == IF stop = 0 THEN None ELSE Some([ start |-> start, stop |-> stop ])

\* \s+(.+?)(?:\.|$) (minWs = 1) or \s*(.+?)(?:\.|$) (minWs = 0) from k, the
\* position after the label (0: no label): the greedy whitespace gives
\* characters back until the rest matches
PhraseFrom(text, p, k, minWs) ==
    IF k = 0 THEN None
    ELSE LastSome([ cs \in (k + minWs)..RunEnd(text, k, IsSpace) |->
                      Span(p, LazyToStop(text, cs)) ])

\* <label>\s+(.+?)(?:\.|$) (minWs = 1) or <label>\s*(.+?)(?:\.|$) (minWs = 0)
LabelledPhraseAt(text, low, p, labels, minWs) ==
    PhraseFrom(text, p, AltStop(low, p, labels), minWs)

\* re: [\w\s]
IsWordOrSpace(c) == IsWord(c) \/ IsSpace(c)

\* <head>\s+ ... [\w\s]+(?:t1|t2|...): from the position k after the head, one
\* whitespace, at least one more character of [\w\s], then the rightmost tail
\* that the greedy [\w\s]+ can reach
GreedyToTailAt(text, low, p, k, tails) ==
    IF k = 0 \/ k > Len(text) \/ ~IsSpace(Char(text, k)) THEN None
    ELSE LastSome([ t \in (k + 2)..RunEnd(text, k, IsWordOrSpace) |->
                      Span(p, AltStop(low, t, tails)) ])

\* word1 \s+ word2 ... : the position after the whitespace run that follows k, or 0
AfterSpaces(text, k) ==
    IF k = 0 \/ RunEnd(text, k, IsSpace) = k THEN 0 ELSE RunEnd(text, k, IsSpace)

\* worker\s+(?:transported|taken)\s+to\s+[\w\s]+(?:Hospital|Medical|Clinic)
TransportAt(text, low, p) ==
    GreedyToTailAt(text, low, p,
        AltStop(low, AfterSpaces(text,
            AltStop(low, AfterSpaces(text, AltStop(low, p, << "worker" >>)),
                    << "transported", "taken" >>)),
            << "to" >>),
        << "hospital", "medical", "clinic" >>)

\* (?:suspended|stopped|halted)\s+(?:all|the)?\s*[\w\s]+(?:operations|work|activities)
SuspensionAt(text, low, p) ==
    GreedyToTailAt(text, low, p, AltStop(low, p, << "suspended", "stopped", "halted" >>),
                   << "operations", "work", "activities" >>)

\* (?:investigation|team|manager|officer)\s+(?:formed|notified|dispatched|en route)
DispatchAt(text, low, p) ==
    Span(p, AltStop(low, AfterSpaces(text,
                AltStop(low, p, << "investigation", "team", "manager", "officer" >>)),
            << "formed", "notified", "dispatched", "en route" >>))

\* action_patterns, by index
ActionMatchAt(i, text, low, p) ==
    CASE i = 1 -> LabelledPhraseAt(text, low, p,
                      << "ambulance", "first aid", "treatment", "medical attention" >>, 1)
      [] i = 2 -> LabelledPhraseAt(text, low, p, << "action:", "response:" >>, 0)
      [] i = 3 -> TransportAt(text, low, p)
      [] i = 4 -> SuspensionAt(text, low, p)
      [] i = 5 -> DispatchAt(text, low, p)

NUM_ACTION_PATTERNS == 5

\* the matches of action pattern i in text, as (start, stop) records
ActionMatches(i, text, low) ==
    FindIter([ p \in 1..Len(text) |-> ActionMatchAt(i, text, low, p) ], 1)

\* actions.append(match.group(0).strip()) for each match
MatchedTexts(text, ms) ==
    [ k \in 1..Len(ms) |-> Strip(SubSeq(text, ms[k].start, ms[k].stop - 1)) ]

\* the phrases collected with the patterns tried from the last to the first
RECURSIVE ActionsFromLastPattern(_, _, _)
ActionsFromLastPattern(i, text, low) ==
    IF i > NUM_ACTION_PATTERNS THEN << >>
    ELSE ActionsFromLastPattern(i + 1, text, low)
            \o MatchedTexts(text, ActionMatches(i, text, low))

RECURSIVE ActionsFrom(_, _, _)
ActionsFrom(i, text, low) ==
    IF i > NUM_ACTION_PATTERNS THEN << >>
    ELSE MatchedTexts(text, ActionMatches(i, text, low)) \o ActionsFrom(i + 1, text, low)

\* "; ".join(actions) if actions else None
JoinedOrNone(actions) == IF Len(actions) > 0 THEN Some(Join(actions, "; ")) ELSE None

\* _extract_action_taken
ExtractActionTaken(text) == JoinedOrNone(ActionsFrom(1, text, Lower(text)))

(***************************************************************************)
(* _extract_incidents                                                      *)
(***************************************************************************)
\* Incident(incident_type, description, severity, action_taken)
Incident(type, description, severity, action) ==
    [ incident_type |-> type, description |-> description,
      severity |-> severity, action_taken |-> action ]

\* Pass 1: the incident of a surviving header block
BlockIncident(m) ==
    Incident("safety", Strip(m.group0), BlockSeverity(m), ExtractActionTaken(m.group0))

BlockIncidentsOf(final) == [ k \in 1..Len(final) |-> BlockIncident(final[k]) ]

\* Pass 1: one safety incident per surviving header block, in match order
BlockIncidents(text) == BlockIncidentsOf(FinalMatches(HeaderMatches(text)))

\* Pass 2: the checks that skip a sentence before the category scan
SkippedInPass2(sent, incidents) ==
    LET sent_text == Lower(sent)
    IN \/ \E k \in 1..Len(incidents) : Contains(incidents[k].description, Strip(sent))
       \/ Strip(sent_text) \in {"incidents and issues:", "incidents:", "incident and issues"}
       \/ Contains(sent_text, "crew count") \/ Contains(sent_text, "operations continue")
       \/ Contains(sent_text, "safety incident") \/ Contains(sent_text, "incident -")

\* Pass 2: the categories whose keywords occur in the sentence, by list position
MatchingTypes(sent_text) ==
    { i \in 1..Len(INCIDENT_TYPES) : AnyIn(sent_text, INCIDENT_KEYWORDS[INCIDENT_TYPES[i]]) }

\* Pass 2 with each new incident put at the front of the list
RECURSIVE SentenceIncidentsAtFront(_, _, _)
SentenceIncidentsAtFront(sentences, i, incidents) ==
    IF i > Len(sentences) THEN incidents
    ELSE IF SkippedInPass2(sentences[i], incidents) \/ MatchingTypes(Lower(sentences[i])) = {}
    THEN SentenceIncidentsAtFront(sentences, i + 1, incidents)
    ELSE SentenceIncidentsAtFront(sentences, i + 1,
             << Incident(INCIDENT_TYPES[Min(MatchingTypes(Lower(sentences[i])))],
                         Strip(sentences[i]), ScanSeverity(Lower(sentences[i])),
                         ExtractActionTaken(sentences[i])) >> \o incidents)

\* Pass 2: the loop over the sentences from index i on; incidents is the list
\* so far, both passes' entries included
RECURSIVE SentenceIncidents(_, _, _)
SentenceIncidents(sentences, i, incidents) ==
    IF i > Len(sentences) THEN incidents
    ELSE LET sent == sentences[i]
             sent_text == Lower(sent)
             types == MatchingTypes(sent_text)
         IN IF SkippedInPass2(sent, incidents) \/ types = {}
            THEN SentenceIncidents(sentences, i + 1, incidents)
            ELSE SentenceIncidents(sentences, i + 1,
                     Append(incidents,
                            Incident(INCIDENT_TYPES[Min(types)], Strip(sent),
                                     ScanSeverity(sent_text), ExtractActionTaken(sent))))

\* _extract_incidents(sentences, doc)
ExtractIncidents(sentences, text) == SentenceIncidents(sentences, 1, BlockIncidents(text))

(***************************************************************************)
(* _extract_location_from_span, _extract_crew_name                         *)
(***************************************************************************)
IsUpper(c) == c \in UpperSet

IsLower(c) == c \in LowerSet

IsAlpha(c) == IsUpper(c) \/ IsLower(c)

IsAlnum(c) == IsAlpha(c) \/ IsDigit(c)

IsAlnumDash(c) == IsAlnum(c) \/ c = "-"

IsLowerDash(c) == IsLower(c) \/ c = "-"

IsAlphaDash(c) == IsAlpha(c) \/ c = "-"

\* <class>+ from k (or one character of the class when single), the match
\* having started at p: Some(match text)
RunFrom(text, p, k, Class(_), single) ==
    IF k = 0 \/ k > Len(text) \/ ~Class(Char(text, k)) THEN None
    ELSE Some(SubSeq(text, p, (IF single THEN k + 1 ELSE RunEnd(text, k, Class)) - 1))

\* (?i)<word>\s+<class>+ (or one character of the class when single): Some(match text)
WordThenRunAt(text, low, p, word, Class(_), single) ==
    RunFrom(text, p, AfterSpaces(text, AltStop(low, p, << word >>)), Class, single)

\* [A-Z]{2,3}-[0-9]+ at p
CodeAt(text, p) ==
    LET ok(k) == /\ \A j \in p..(p + k - 1) : j <= Len(text) /\ IsUpper(Char(text, j))
                 /\ At(text, p + k, "-")
                 /\ p + k + 1 <= Len(text) /\ IsDigit(Char(text, p + k + 1))
        k == IF ok(3) THEN 3 ELSE 2
    IN IF ok(3) \/ ok(2) THEN Some(SubSeq(text, p, RunEnd(text, p + k + 1, IsDigit) - 1)) ELSE None

\* LOCATION_PATTERNS, by index
LocationAt(i, text, low, p) ==
    CASE i = 1 -> WordThenRunAt(text, low, p, "tower", IsAlpha, TRUE)
      [] i = 2 -> WordThenRunAt(text, low, p, "level", IsDigit, FALSE)
      [] i = 3 -> WordThenRunAt(text, low, p, "floor", IsDigit, FALSE)
      [] i = 4 -> WordThenRunAt(text, low, p, "block", IsAlnum, FALSE)
      [] i = 5 -> WordThenRunAt(text, low, p, "zone", IsAlnumDash, FALSE)
      [] i = 6 -> WordThenRunAt(text, low, p, "building", IsAlnum, FALSE)
      [] i = 7 -> CodeAt(text, p)
      [] i = 8 -> WordThenRunAt(text, low, p, "section", IsAlnumDash, FALSE)
      [] i = 9 -> WordThenRunAt(text, low, p, "station", IsAlnumDash, FALSE)

NUM_LOCATION_PATTERNS == 9

\* re.search(LOCATION_PATTERNS[i], text): Some(group(0)) of the leftmost match
LocationSearch(i, text, low) ==
    FirstSome([ p \in 1..Len(text) |-> LocationAt(i, text, low, p) ])

\* span.ents of the backend: a gazetteer of place names, each tagged GPE
GAZETTEER == << "Riyadh", "Jeddah" >>

\* the (position, text, label) entities of a sentence, in order
Entities(b, sent) ==
    LET hits == { p \in 1..Len(sent) : \E i \in 1..Len(GAZETTEER) : At(sent, p, GAZETTEER[i]) }
        order == Sorted(hits)
    IN [ k \in 1..Len(order) |->
           [ text |-> GAZETTEER[CHOOSE i \in 1..Len(GAZETTEER) : At(sent, order[k], GAZETTEER[i])],
             label |-> "GPE" ] ]

\* the leftmost match of any pattern of LOCATION_PATTERNS
PatternLocationLeftmost(sent, low) ==
    FirstSome([ p \in 1..Len(sent) |->
                  FirstSome([ i \in 1..NUM_LOCATION_PATTERNS |-> LocationAt(i, sent, low, p) ]) ])

\* the loop over LOCATION_PATTERNS: the first pattern that matches
PatternLocation(sent, low) ==
    FirstSome([ i \in 1..NUM_LOCATION_PATTERNS |-> LocationSearch(i, sent, low) ])

\* Fallback to NER: the first entity labelled GPE, LOC or FAC
EntityLocation(ents) ==
    FirstSome([ k \in 1..Len(ents) |->
                  IF ents[k].label \in {"GPE", "LOC", "FAC"} THEN Some(ents[k].text) ELSE None ])

\* _extract_location_from_span
ExtractLocation(b, sent) ==
    OrElse(PatternLocation(sent, Lower(sent)), EntityLocation(Entities(b, sent)))

\* [A-Z]<class>+ at p: the position after it, or 0
CapWordStop(text, p, Class(_)) ==
    IF p >= 1 /\ p <= Len(text) /\ IsUpper(Char(text, p)) /\ RunEnd(text, p + 1, Class) > p + 1
    THEN RunEnd(text, p + 1, Class) ELSE 0

\* (?:\s+[A-Z]<class>+)* from k, greedy: the position after the last word taken
RECURSIVE MoreCapWords(_, _, _)
MoreCapWords(text, k, dashUpper) ==
    LET w == AfterSpaces(text, k)
        nxt == IF w = 0 THEN 0
               ELSE IF dashUpper THEN CapWordStop(text, w, IsAlphaDash)
               ELSE CapWordStop(text, w, IsLowerDash)
    IN IF nxt = 0 THEN k ELSE MoreCapWords(text, nxt, dashUpper)

\* the name text[p..k-1] if \s+(?:crew|team|contractor) follows it
NameBeforeCrew(text, p, k) ==
    IF k # 0 /\ AltStop(text, AfterSpaces(text, k), << "crew", "team", "contractor" >>) # 0
    THEN Some(SubSeq(text, p, k - 1)) ELSE None

\* ([A-Z][a-z]+(?:\s+[A-Z][a-z-]+)*)\s+(?:crew|team|contractor) at p (0: the
\* pattern's start did not match): Some(group(1))
CrewNameAt(text, p) ==
    NameBeforeCrew(text, p, MoreCapWords(text, CapWordStop(text, p, IsLower), FALSE))

\* crew_patterns, by index: the second is the first without its leading keyword
CrewAt(i, text, p) ==
    IF i = 1
    THEN CrewNameAt(text, AfterSpaces(text, AltStop(text, p, << "by", "from", "contractor" >>)))
    ELSE CrewNameAt(text, p)

NUM_CREW_PATTERNS == 2

\* _extract_crew_name
ExtractCrewName(text) ==
    FirstSome([ i \in 1..NUM_CREW_PATTERNS |->
                  FirstSome([ p \in 1..Len(text) |-> CrewAt(i, text, p) ]) ])

(***************************************************************************)
(* _extract_tasks                                                          *)
(***************************************************************************)
\* CompletedTask(task_name, location, crew)
CompletedTask(b, sent) ==
    [ task_name |-> Strip(sent), location |-> ExtractLocation(b, sent),
      crew |-> ExtractCrewName(sent) ]

\* Skip very short sentences
MIN_TASK_SENTENCE_LEN == 25

\* Minimum reasonable task description
MIN_BULLET_LEN == 10

\* the bullet markers; the texts of the model are ASCII, so of '-' and the
\* round bullet U+2022 only '-' occurs in them
BULLETS == {"-"}

\* re.match(r'^(completed|total|only)\s+\d+', s)
IsQuantitySentence(s) ==
    LET k == AfterSpaces(s, AltStop(s, 1, << "completed", "total", "only" >>))
    IN k # 0 /\ k <= Len(s) /\ IsDigit(Char(s, k))

\* the two early `continue`s at the top of the loop body
SkippedAsTask(sent) ==
    \/ Len(Strip(sent)) < MIN_TASK_SENTENCE_LEN
    \/ Strip(Lower(sent)) \in {"progress achieved:", "incidents and issues:"}

\* a keyword test that every sentence passes
HasCompletionKeywordAlways(sent_text) == TRUE

\* has_completion_keyword
HasCompletionKeyword(sent_text) == AnyIn(sent_text, TASK_COMPLETION_KEYWORDS)

\* the `continue`s inside the keyword branch: they end the iteration, the
\* bullet check included
RejectedKeywordSentence(sent_text) ==
    \/ StartsWith(Strip(sent_text), "total ") \/ StartsWith(Strip(sent_text), "only ")
    \/ IsQuantitySentence(Strip(sent_text))
    \/ Contains(sent_text, "crew count")

\* the bullet branch appends
IsBulletTask(sent_text) ==
    /\ \E m \in BULLETS : StartsWith(sent_text, m)
    /\ Len(Strip(LStripChars(sent_text, BULLETS))) > MIN_BULLET_LEN

\* the tasks one sentence appends, in order
TasksOfSentence(b, sent) ==
    LET sent_text == Lower(sent)
        kw == HasCompletionKeyword(sent_text)
        appends == (IF kw THEN 1 ELSE 0) + (IF IsBulletTask(sent_text) THEN 1 ELSE 0)
    IN IF SkippedAsTask(sent) THEN << >>
       ELSE IF kw /\ RejectedKeywordSentence(sent_text) THEN << >>
       ELSE [ k \in 1..appends |-> CompletedTask(b, sent) ]

RECURSIVE TasksFrom(_, _, _)
TasksFrom(b, sentences, i) ==
    IF i > Len(sentences) THEN << >>
    ELSE TasksOfSentence(b, sentences[i]) \o TasksFrom(b, sentences, i + 1)

\* _extract_tasks(sentences, doc)
ExtractTasks(b, sentences) == TasksFrom(b, sentences, 1)

(***************************************************************************)
(* _extract_blockers                                                       *)
(***************************************************************************)
\* the indicators that are safety keywords of INCIDENT_KEYWORDS as well
INDICATORS_AMONG_SAFETY_KEYWORDS ==
    << "incident", "safety incident", "accident", "injury", "injured",
       "tipped over", "fall" >>

STRONG_INCIDENT_INDICATORS ==
    << "incident", "safety incident", "accident", "injury", "injured",
       "tipped over", "fall", "fell" >>

INSPECTION_CONTEXT_WORDS == << "lift", "platform", "failed", "ground" >>

MATERIAL_WORDS == << "material", "supply", "delivery", "shortage", "steel", "concrete", "rebar" >>

EQUIPMENT_WORDS == << "equipment", "crane", "machine" >>

WEATHER_WORDS == << "weather", "rain", "wind", "storm" >>

APPROVAL_WORDS == << "approval", "permit" >>

\* the blocker loop without its incident_sentences check
IsClaimedNever(sent, incident_sentences) == FALSE

\* Skip if this sentence is already classified as an incident
IsClaimed(sent, incident_sentences) == Strip(sent) \in incident_sentences

\* the three `continue`s before the keyword test
SkippedAsBlocker(sent, incident_sentences) ==
    LET sent_text == Lower(sent)
    IN \/ IsClaimed(sent, incident_sentences)
       \/ AnyIn(sent_text, STRONG_INCIDENT_INDICATORS)
       \/ /\ Contains(sent_text, "inspected") \/ Contains(sent_text, "inspection")
          /\ AnyIn(sent_text, INSPECTION_CONTEXT_WORDS)

\* has_blocker_keyword
HasBlockerKeyword(sent_text) == AnyIn(sent_text, BLOCKER_KEYWORDS)

\* the cause category with the groups tried in the opposite order
BlockerCauseLastGroupFirst(sent_text) ==
    IF AnyIn(sent_text, APPROVAL_WORDS) THEN Some("approval_delay")
    ELSE IF AnyIn(sent_text, WEATHER_WORDS) THEN Some("weather")
    ELSE IF AnyIn(sent_text, EQUIPMENT_WORDS) THEN Some("equipment_failure")
    ELSE IF AnyIn(sent_text, MATERIAL_WORDS) THEN Some("material_delay")
    ELSE None

\* Determine the cause category
BlockerCause(sent_text) ==
    IF AnyIn(sent_text, MATERIAL_WORDS) THEN Some("material_delay")
    ELSE IF AnyIn(sent_text, EQUIPMENT_WORDS) THEN Some("equipment_failure")
    ELSE IF AnyIn(sent_text, WEATHER_WORDS) THEN Some("weather")
    ELSE IF AnyIn(sent_text, APPROVAL_WORDS) THEN Some("approval_delay")
    ELSE None

\* Blocker(issue, affected_task, cause)
Blocker(sent) ==
    [ issue |-> Strip(sent), affected_task |-> None, cause |-> BlockerCause(Lower(sent)) ]

RECURSIVE BlockersFrom(_, _, _)
BlockersFrom(sentences, i, incident_sentences) ==
    IF i > Len(sentences) THEN << >>
    ELSE (IF ~SkippedAsBlocker(sentences[i], incident_sentences)
             /\ HasBlockerKeyword(Lower(sentences[i]))
          THEN << Blocker(sentences[i]) >> ELSE << >>)
         \o BlockersFrom(sentences, i + 1, incident_sentences)

\* _extract_blockers(sentences, doc, incident_sentences)
ExtractBlockers(sentences, incident_sentences) == BlockersFrom(sentences, 1, incident_sentences)

\* the set built from the safety incidents only, a partial list
IncidentSentencesOfSafety(incidents) ==
    { incidents[k].description :
        k \in { j \in 1..Len(incidents) : incidents[j].incident_type = "safety" } }

\* set(inc.description for inc in extraction.incidents)
IncidentSentences(incidents) == { incidents[k].description : k \in 1..Len(incidents) }

(***************************************************************************)
(* _extract_date                                                           *)
(***************************************************************************)
MONTH_NAMES ==
    << "january", "february", "march", "april", "may", "june", "july",
       "august", "september", "october", "november", "december" >>

DigitValues == [ c \in DigitSet |-> (CHOOSE i \in 1..Len(DigitChars) : Char(DigitChars, i) = c) - 1 ]

DigitValue(c) == DigitValues[c]

\* int(s) for a string of digits
RECURSIVE ToInt(_)
ToInt(s) ==
    IF Len(s) = 0 THEN 0
    ELSE 10 * ToInt(SubSeq(s, 1, Len(s) - 1)) + DigitValue(Char(s, Len(s)))

IsLeapYear(y) == (y % 4 = 0 /\ y % 100 # 0) \/ y % 400 = 0

DaysInMonth(m, y) ==
    IF m = 2 THEN (IF IsLeapYear(y) THEN 29 ELSE 28)
    ELSE IF m \in {4, 6, 9, 11} THEN 30 ELSE 31

\* a date check that takes every month to have 31 days
IsCalendarDateOf31Days(y, m, d) == y >= 1 /\ m \in 1..12 /\ d >= 1 /\ d <= 31

\* datetime.date(y, m, d) is constructible
IsCalendarDate(y, m, d) == y >= 1 /\ m \in 1..12 /\ d >= 1 /\ d <= DaysInMonth(m, y)

\* \d{1,2} at p followed by something that is no digit: the position after it, or 0
OneOrTwoDigits(s, p) ==
    IF p >= 1 /\ p <= Len(s) /\ RunEnd(s, p, IsDigit) - p \in {1, 2}
    THEN RunEnd(s, p, IsDigit) ELSE 0

\* \d{4} at p: the position after it, or 0
FourDigits(s, p) ==
    IF p >= 1 /\ p + 3 <= Len(s) /\ \A j \in p..(p + 3) : IsDigit(Char(s, j)) THEN p + 4 ELSE 0

\* <sep>\d{1,2} from e, the position after what matched so far (0: nothing
\* did): the position after it, or 0
SepDigitsStop(s, e, sep) == IF e # 0 /\ At(s, e, sep) THEN OneOrTwoDigits(s, e + 1) ELSE 0

\* <sep>\d{4} from e: the position after it, or 0
SepYearStop(s, e, sep) == IF e # 0 /\ At(s, e, sep) THEN FourDigits(s, e + 1) ELSE 0

\* \d{1,2}<sep>\d{1,2}<sep>\d{4} at p: the position after it, or 0
NumericDateStop(s, p, sep) ==
    SepYearStop(s, SepDigitsStop(s, OneOrTwoDigits(s, p), sep), sep)

\* \d{1,2}\s+ at p (p may lie inside a run of digits): the position after the
\* digits, or 0
DayStop(s, p) ==
    IF p >= 1 /\ p + 2 <= Len(s) /\ IsDigit(Char(s, p)) /\ IsDigit(Char(s, p + 1))
          /\ IsSpace(Char(s, p + 2))
    THEN p + 2
    ELSE IF p >= 1 /\ p + 1 <= Len(s) /\ IsDigit(Char(s, p)) /\ IsSpace(Char(s, p + 1))
    THEN p + 1
    ELSE 0

\* the number of the month named at w, or 0
MonthAt(low, w) ==
    IF w = 0 \/ \A i \in 1..Len(MONTH_NAMES) : ~At(low, w, MONTH_NAMES[i]) THEN 0
    ELSE CHOOSE i \in 1..Len(MONTH_NAMES) : At(low, w, MONTH_NAMES[i])

\* (?:January|...|December) at w: the position after it, or 0
MonthStop(low, w, month) == IF month = 0 THEN 0 ELSE w + Len(MONTH_NAMES[month])

\* \d{1,2}\s+(?:January|...|December)\s+\d{4} at p: the position after it, or 0
WrittenDateStop(s, low, p) ==
    FourDigits(s, AfterSpaces(s, MonthStop(low, AfterSpaces(s, DayStop(s, p)),
                                           MonthAt(low, AfterSpaces(s, DayStop(s, p))))))

\* datetime.date(y, m, d), or None where it raises ValueError
DateIfCalendar(y, m, d) ==
    IF IsCalendarDate(y, m, d) THEN Some([ year |-> y, month |-> m, day |-> d ]) ELSE None

\* the fields of a numeric date_str whose parts end at e1, e2 and e3
NumericFields(s, e1, e2, e3) ==
    IF e3 # Len(s) + 1 THEN None
    ELSE DateIfCalendar(ToInt(SubSeq(s, e2 + 1, e3 - 1)), ToInt(SubSeq(s, e1 + 1, e2 - 1)),
                        ToInt(SubSeq(s, 1, e1 - 1)))

\* the fields of a written date_str whose day ends at e1 and that ends at e3
WrittenFields(s, low, e1, e3) ==
    IF e3 # Len(s) + 1 THEN None
    ELSE DateIfCalendar(ToInt(SubSeq(s, e3 - 4, e3 - 1)), MonthAt(low, AfterSpaces(s, e1)),
                        ToInt(SubSeq(s, 1, e1 - 1)))

\* datetime.strptime(date_str, fmt).date() for fmt 1 "%d/%m/%Y", 2 "%d-%m-%Y",
\* 3 "%d %B %Y": Some(date), or None where strptime raises ValueError.  The
\* whole of date_str has to match the format and name a calendar date.
Strptime(date_str, fmt) ==
    CASE fmt = 1 -> NumericFields(date_str, OneOrTwoDigits(date_str, 1),
                                  SepDigitsStop(date_str, OneOrTwoDigits(date_str, 1), "/"),
                                  NumericDateStop(date_str, 1, "/"))
      [] fmt = 2 -> NumericFields(date_str, OneOrTwoDigits(date_str, 1),
                                  SepDigitsStop(date_str, OneOrTwoDigits(date_str, 1), "-"),
                                  NumericDateStop(date_str, 1, "-"))
      [] fmt = 3 -> WrittenFields(date_str, Lower(date_str), DayStop(date_str, 1),
                                  WrittenDateStop(date_str, Lower(date_str), 1))

NUM_DATE_FORMATS == 3

\* `if match:` and the inner loop: the first format that parses group(1)
ParseMatch(match) ==
    IF match = None THEN None
    ELSE FirstSome([ fmt \in 1..NUM_DATE_FORMATS |-> Strptime(match[1], fmt) ])

\* text[from..stop-1], or None when nothing matched
Capture(text, from, stop) ==
    IF from = 0 \/ stop = 0 THEN None ELSE Some(SubSeq(text, from, stop - 1))

\* Date:\s* at p: the position after it, or 0
DateLabelStop(text, low, p) ==
    IF At(low, p, "date:") THEN RunEnd(text, p + 5, IsSpace) ELSE 0

\* patterns[i] matched at p: Some(group(1)), or None
DatePatternAt(i, text, low, p) ==
    CASE i = 1 -> Capture(text, DateLabelStop(text, low, p),
                          NumericDateStop(text, DateLabelStop(text, low, p), "/"))
      [] i = 2 -> Capture(text, DateLabelStop(text, low, p),
                          NumericDateStop(text, DateLabelStop(text, low, p), "-"))
      [] i = 3 -> Capture(text, p, WrittenDateStop(text, low, p))

\* re.search(patterns[i], text, re.IGNORECASE): Some(group(1)) of the leftmost match
DateSearch(i, text, low) ==
    FirstSome([ p \in 1..Len(text) |-> DatePatternAt(i, text, low, p) ])

NUM_DATE_PATTERNS == 3

\* the outer loop: the first pattern whose match parses
DateFrom(text, low) ==
    FirstSome([ i \in 1..NUM_DATE_PATTERNS |-> ParseMatch(DateSearch(i, text, low)) ])

\* _extract_date
ExtractDate(text) == DateFrom(text, Lower(text))

(***************************************************************************)
(* _extract_site_name                                                      *)
(***************************************************************************)
\* Minimum sensible length
MIN_SITE_LEN == 3

\* the known-site loop comparing without .lower()
KnownSitesInExactCase(text) ==
    { i \in 1..Len(SITE_NAMES) : Contains(text, SITE_NAMES[i]) }

\* the known-site loop: the positions in SITE_NAMES of the names the text contains
KnownSitesIn(text) ==
    LET low == Lower(text)
    IN { i \in 1..Len(SITE_NAMES) : Contains(low, Lower(SITE_NAMES[i])) }

\* (.+?) from cs, lazy, "." matching no newline, up to the first position where
\* the pattern's ending matches: a newline, the text's end (atEnd: the pattern
\* ends in $ under MULTILINE) or "Date" (atDate).  The position after the
\* capture, or 0.
CaptureStop(text, low, cs, atEnd, atDate) ==
    LET ends == { t \in (cs + 1)..LineEnd(text, cs) :
                    \/ t <= Len(text) /\ Char(text, t) = "\n"
                    \/ atEnd /\ t = Len(text) + 1
                    \/ atDate /\ At(low, t, "date") }
    IN IF cs < 1 \/ cs > Len(text) \/ ends = {} THEN 0 ELSE Min(ends)

\* \s*(.+?)<ending> from k: the greedy whitespace gives characters back until
\* the capture matches.  Some(group(1)) or None.
SpacesThenCapture(text, low, k, atEnd, atDate) ==
    IF k = 0 THEN None
    ELSE LastSome([ cs \in k..RunEnd(text, k, IsSpace) |->
                      Capture(text, cs, CaptureStop(text, low, cs, atEnd, atDate)) ])

\* [-:] at c: the position after it, or 0
DashOrColonAt(text, c) ==
    IF c <= Len(text) /\ Char(text, c) \in {"-", ":"} THEN c + 1 ELSE 0

\* \s*[-:] from k: the position after it, or 0
DashOrColonStop(text, k) ==
    IF k = 0 THEN 0 ELSE DashOrColonAt(text, RunEnd(text, k, IsSpace))

\* <ws>(?:Report|Log) from k1, the position after (?:Daily|Site) (0: no match)
ReportWordStop(text, low, k1, minWs) ==
    IF k1 = 0 \/ RunEnd(text, k1, IsSpace) - k1 < minWs THEN 0
    ELSE AltStop(low, RunEnd(text, k1, IsSpace), << "report", "log" >>)

\* (?:Daily|Site)<ws>(?:Report|Log) at p, <ws> being \s+ (minWs = 1) or \s*
\* (minWs = 0): the position after it, or 0
ReportTitleStop(text, low, p, minWs) ==
    ReportWordStop(text, low, AltStop(low, p, << "daily", "site" >>), minWs)

\* the first position t after p, on p's line, where \s*(?:Daily|Site)\s*(?:Report|Log)
\* matches, or 0
TitleAfter(text, low, p) ==
    LET ends == { t \in (p + 1)..LineEnd(text, p) :
                    ReportTitleStop(text, low, RunEnd(text, t, IsSpace), 0) # 0 }
    IN IF ends = {} THEN 0 ELSE Min(ends)

\* ^ under MULTILINE
AtLineStart(text, p) == p = 1 \/ Char(text, p - 1) = "\n"

\* ^(.+?)\s*(?:Daily|Site)\s*(?:Report|Log) at the line start p: Some(group(1))
LineBeforeTitleAt(text, low, p) ==
    IF AtLineStart(text, p) THEN Capture(text, p, TitleAfter(text, low, p)) ELSE None

\* the header patterns, by index, IGNORECASE | MULTILINE: Some(group(1)) of the
\* match that starts at p
SitePatternAt(i, text, low, p) ==
    CASE i = 1 -> SpacesThenCapture(text, low, AltStop(low, p, << "project:", "site:" >>), TRUE, FALSE)
      [] i = 2 -> LineBeforeTitleAt(text, low, p)
      [] i = 3 -> SpacesThenCapture(text, low,
                      DashOrColonStop(text, ReportTitleStop(text, low, p, 1)), FALSE, TRUE)
      [] i = 4 -> SpacesThenCapture(text, low,
                      DashOrColonStop(text, AltStop(low, p, << "report" >>)), FALSE, TRUE)

NUM_SITE_PATTERNS == 4

\* re.search(patterns[i], text, ...): Some(group(1)) of the leftmost match
SiteSearch(i, text, low) ==
    FirstSome([ p \in 1..Len(text) |-> SitePatternAt(i, text, low, p) ])

\* site = match.group(1).strip(), returned whatever its length
QualifyingSiteOfAnyLength(found) ==
    IF found # None THEN Some(Strip(found[1])) ELSE None

\* site = match.group(1).strip(), returned if len(site) > 3
QualifyingSite(found) ==
    IF found # None /\ Len(Strip(found[1])) > MIN_SITE_LEN THEN Some(Strip(found[1])) ELSE None

\* the header-pattern loop: the first pattern whose stripped capture is long enough
HeaderSite(text, low) ==
    FirstSome([ i \in 1..NUM_SITE_PATTERNS |-> QualifyingSite(SiteSearch(i, text, low)) ])

\* the first of SITE_NAMES among the names found
FirstKnownSite(known) == IF known # {} THEN Some(SITE_NAMES[Min(known)]) ELSE None

\* _extract_site_name
ExtractSiteName(text) ==
    OrElse(FirstKnownSite(KnownSitesIn(text)), HeaderSite(text, Lower(text)))

(***************************************************************************)
(* _extract_manager_name                                                   *)
(***************************************************************************)
\* <w1>\s+<w2> at p, case-sensitive: the position after it, or 0
TwoWordsStop(text, p, w1, w2) ==
    AltStop(text, AfterSpaces(text, AltStop(text, p, << w1 >>)), << w2 >>)

\* ":" at k, the position after a label (0: no label): the position after it, or 0
ColonStop(text, k) == IF k # 0 /\ At(text, k, ":") THEN k + 1 ELSE 0

\* the first entry of stops that is not 0, or 0
FirstStopOf(stops) ==
    IF \A i \in DOMAIN stops : stops[i] = 0 THEN 0
    ELSE stops[Min({ i \in DOMAIN stops : stops[i] # 0 })]

\* (?:Site\s+Manager|Logged\s+by|Manager|Reporting\s+Officer|Supervisor): at p
ManagerLabelStop(text, p) ==
    FirstStopOf(<< ColonStop(text, TwoWordsStop(text, p, "Site", "Manager")),
                   ColonStop(text, TwoWordsStop(text, p, "Logged", "by")),
                   ColonStop(text, AltStop(text, p, << "Manager" >>)),
                   ColonStop(text, TwoWordsStop(text, p, "Reporting", "Officer")),
                   ColonStop(text, AltStop(text, p, << "Supervisor" >>)) >>)

\* :? at k
OptionalColon(text, k) == IF k # 0 /\ At(text, k, ":") THEN k + 1 ELSE k

\* by:? at p
ByStop(text, p) == OptionalColon(text, AltStop(text, p, << "by" >>))

\* the name text[s..e-1], its first word ending at k1, if at least one more word follows
NameOfWords(text, s, k1, e) == IF e = k1 THEN None ELSE Some(SubSeq(text, s, e - 1))

\* [A-Z][a-z]+(?:\s+[A-Z][a-zA-Z-]+)+ at s, k1 being the end of [A-Z][a-z]+ (0: no match)
PersonName(text, s, k1) ==
    IF k1 = 0 THEN None ELSE NameOfWords(text, s, k1, MoreCapWords(text, k1, TRUE))

PersonNameAt(text, s) == PersonName(text, s, CapWordStop(text, s, IsLower))

\* \s*([A-Z][a-z]+(?:\s+[A-Z][a-zA-Z-]+)+) from k: Some(group(1))
PersonNameFrom(text, k) ==
    IF k = 0 THEN None ELSE PersonNameAt(text, RunEnd(text, k, IsSpace))

\* patterns[i] at p
ManagerPatternAt(i, text, p) ==
    IF i = 1 THEN PersonNameFrom(text, ManagerLabelStop(text, p))
    ELSE PersonNameFrom(text, ByStop(text, p))

NUM_MANAGER_PATTERNS == 2

\* re.search(patterns[i], text)
ManagerSearch(i, text) ==
    FirstSome([ p \in 1..Len(text) |-> ManagerPatternAt(i, text, p) ])

\* match.group(1).strip()
StrippedGroup(found) == IF found = None THEN None ELSE Some(Strip(found[1]))

\* the name of the leftmost match of either pattern
ExtractManagerNameLeftmost(text) ==
    StrippedGroup(FirstSome([ p \in 1..Len(text) |->
                    OrElse(ManagerPatternAt(1, text, p), ManagerPatternAt(2, text, p)) ]))

\* _extract_manager_name
ExtractManagerName(text) ==
    StrippedGroup(FirstSome([ i \in 1..NUM_MANAGER_PATTERNS |-> ManagerSearch(i, text) ]))

(***************************************************************************)
(* src/schema.py: DailyLogExtraction                                       *)
(***************************************************************************)
\* DailyLogExtraction(raw_text=text): every other field at its default
DailyLogExtraction(raw) ==
    [ log_date |-> None, site_name |-> None, submitted_by |-> None,
      completed_tasks |-> << >>, blockers |-> << >>, incidents |-> << >>,
      total_tasks_completed |-> 0, total_blockers |-> 0, total_incidents |-> 0,
      raw_text |-> Some(raw) ]

\* calculate_stats without the line that sets total_blockers
CalculateStatsWithoutBlockers(e) ==
    [ e EXCEPT !.total_tasks_completed = Len(e.completed_tasks),
               !.total_incidents = Len(e.incidents) ]

\* calculate_stats without the line that sets total_incidents
CalculateStatsWithoutIncidents(e) ==
    [ e EXCEPT !.total_tasks_completed = Len(e.completed_tasks),
               !.total_blockers = Len(e.blockers) ]

\* calculate_stats
CalculateStats(e) ==
    [ e EXCEPT !.total_tasks_completed = Len(e.completed_tasks),
               !.total_blockers = Len(e.blockers),
               !.total_incidents = Len(e.incidents) ]

(***************************************************************************)
(* The input texts                                                         *)
(***************************************************************************)
MajorHeader == "SAFETY INCIDENT - MAJOR:"

MinorHeader == "SAFETY INCIDENT - MINOR:"

SlipReport == "Worker slipped on wet formwork at Tower B Level 4 and was taken to the site clinic."

CutReport == "Small cut treated on site."

HoldNote == "Work in the area is on hold."

QualityNote == "Quality issue found in the Level 3 slab and rework is pending."

TaskNote == "Completed concrete pouring at Tower A by Ahmed crew."

DelayNote == "Additionally, steel delivery was delayed due to rain."

PlainNote == "The weather was clear and sunny all day."

BulletNote == "- Rebar fixing at Zone C-1 for the east wing"

\* the paragraphs a general log is made of
Paragraphs ==
    << MajorHeader \o " " \o SlipReport,
       QualityNote, TaskNote, DelayNote, PlainNote, BulletNote >>

\* what separates two paragraphs
Separators == << " ", "\n\n" >>

\* the number of paragraphs of a general log
MaxParagraphs == 2

RECURSIVE LogsOf(_)
LogsOf(n) ==
    IF n = 0 THEN {""}
    ELSE IF n = 1 THEN { Paragraphs[i] : i \in 1..Len(Paragraphs) }
    ELSE { d \o Separators[j] \o Paragraphs[i] :
             d \in LogsOf(n - 1), j \in 1..Len(Separators), i \in 1..Len(Paragraphs) }

GeneralLogs == UNION { LogsOf(n) : n \in 0..MaxParagraphs }

(***************************************************************************)
(* extract_from_text, statement by statement                               *)
(***************************************************************************)
\* how many calls of extract_from_text a behaviour makes
MaxCalls == 2

VARIABLES
    nlp,                \* self.nlp: the backend loaded by __init__
    text,               \* the argument of the call
    pc,                 \* the statement the call is at
    extraction,         \* the local `extraction`: None before line 57
    sentences,          \* the local `sentences`
    incidents,          \* the local `incidents` of _extract_incidents
    incident_sentences, \* the local `incident_sentences`
    results             \* what the calls so far returned, in order

vars == << nlp, text, pc, extraction, sentences, incidents, incident_sentences, results >>

\* the state at the entry of the first call, for a set of input texts
InitOn(texts) ==
    /\ nlp \in Backends
    /\ text \in texts
    /\ pc = "construct"
    /\ extraction = None
    /\ sentences = << >>
    /\ incidents = << >>
    /\ incident_sentences = {}
    /\ results = << >>

Init == InitOn(GeneralLogs)

\* line 57: extraction = DailyLogExtraction(raw_text=text)
Construct ==
    /\ pc = "construct"
    /\ extraction' = Some(DailyLogExtraction(text))
    /\ pc' = "log_date"
    /\ UNCHANGED << nlp, text, sentences, incidents, incident_sentences, results >>

\* line 60: extraction.log_date = self._extract_date(text)
SetLogDate ==
    /\ pc = "log_date"
    /\ extraction' = Some([ extraction[1] EXCEPT !.log_date = ExtractDate(text) ])
    /\ pc' = "site_name"
    /\ UNCHANGED << nlp, text, sentences, incidents, incident_sentences, results >>

\* line 61: extraction.site_name = self._extract_site_name(text)
SetSiteName ==
    /\ pc = "site_name"
    /\ extraction' = Some([ extraction[1] EXCEPT !.site_name = ExtractSiteName(text) ])
    /\ pc' = "submitted_by"
    /\ UNCHANGED << nlp, text, sentences, incidents, incident_sentences, results >>

\* line 62: extraction.submitted_by = self._extract_manager_name(text)
SetSubmittedBy ==
    /\ pc = "submitted_by"
    /\ extraction' = Some([ extraction[1] EXCEPT !.submitted_by = ExtractManagerName(text) ])
    /\ pc' = "nlp"
    /\ UNCHANGED << nlp, text, sentences, incidents, incident_sentences, results >>

\* lines 65-68: doc = self.nlp(text); sentences = list(doc.sents)
Segment ==
    /\ pc = "nlp"
    /\ sentences' = Sentences(nlp, text)
    /\ pc' = "incidents_pass1"
    /\ UNCHANGED << nlp, text, extraction, incidents, incident_sentences, results >>

\* line 72, entering _extract_incidents: lines 242-293, the header blocks
IncidentsPass1 ==
    /\ pc = "incidents_pass1"
    /\ incidents' = BlockIncidents(text)
    /\ pc' = "incidents_pass2"
    /\ UNCHANGED << nlp, text, extraction, sentences, incident_sentences, results >>

\* lines 295-333, the sentence loop, and the assignment of line 72
IncidentsPass2 ==
    /\ pc = "incidents_pass2"
    /\ incidents' = SentenceIncidents(sentences, 1, incidents)
    /\ extraction' = Some([ extraction[1] EXCEPT !.incidents = incidents' ])
    /\ pc' = "incident_sentences"
    /\ UNCHANGED << nlp, text, sentences, incident_sentences, results >>

\* line 75: incident_sentences = set(inc.description for inc in extraction.incidents)
CollectIncidentSentences ==
    /\ pc = "incident_sentences"
    /\ incident_sentences' = IncidentSentences(extraction[1].incidents)
    /\ pc' = "completed_tasks"
    /\ UNCHANGED << nlp, text, extraction, sentences, incidents, results >>

\* a task classifier that leaves out the sentences the incident detector claimed
SetCompletedTasksUnclaimed ==
    /\ pc = "completed_tasks"
    /\ extraction' = Some([ extraction[1] EXCEPT
                              !.completed_tasks =
                                  SelectSeq(ExtractTasks(nlp, sentences),
                                            LAMBDA t : t.task_name \notin incident_sentences) ])
    /\ pc' = "blockers"
    /\ UNCHANGED << nlp, text, sentences, incidents, incident_sentences, results >>

\* line 77: extraction.completed_tasks = self._extract_tasks(sentences, doc)
SetCompletedTasks ==
    /\ pc = "completed_tasks"
    /\ extraction' = Some([ extraction[1] EXCEPT !.completed_tasks = ExtractTasks(nlp, sentences) ])
    /\ pc' = "blockers"
    /\ UNCHANGED << nlp, text, sentences, incidents, incident_sentences, results >>

\* line 78: extraction.blockers = self._extract_blockers(sentences, doc, incident_sentences)
SetBlockers ==
    /\ pc = "blockers"
    /\ extraction' = Some([ extraction[1] EXCEPT
                              !.blockers = ExtractBlockers(sentences, incident_sentences) ])
    /\ pc' = "calculate_stats"
    /\ UNCHANGED << nlp, text, sentences, incidents, incident_sentences, results >>

\* line 81: extraction.calculate_stats()
RunCalculateStats ==
    /\ pc = "calculate_stats"
    /\ extraction' = Some(CalculateStats(extraction[1]))
    /\ pc' = "return"
    /\ UNCHANGED << nlp, text, sentences, incidents, incident_sentences, results >>

\* line 83: return extraction
Return ==
    /\ pc = "return"
    /\ results' = Append(results, extraction[1])
    /\ pc' = "returned"
    /\ UNCHANGED << nlp, text, extraction, sentences, incidents, incident_sentences >>

\* a call that leaves self.nlp changed for the next one
CallAgainReloading ==
    /\ pc = "returned"
    /\ Len(results) < MaxCalls
    /\ pc' = "construct"
    /\ nlp' \in Backends
    /\ extraction' = None
    /\ sentences' = << >>
    /\ incidents' = << >>
    /\ incident_sentences' = {}
    /\ UNCHANGED << text, results >>

\* the caller calls extract_from_text again, on the same text: the frame of the
\* call before is gone, self.nlp is what it was
CallAgain ==
    /\ pc = "returned"
    /\ Len(results) < MaxCalls
    /\ pc' = "construct"
    /\ extraction' = None
    /\ sentences' = << >>
    /\ incidents' = << >>
    /\ incident_sentences' = {}
    /\ UNCHANGED << nlp, text, results >>

Next ==
    \/ Construct
    \/ SetLogDate
    \/ SetSiteName
    \/ SetSubmittedBy
    \/ Segment
    \/ IncidentsPass1
    \/ IncidentsPass2
    \/ CollectIncidentSentences
    \/ SetCompletedTasks
    \/ SetBlockers
    \/ RunCalculateStats
    \/ Return
    \/ CallAgain

Spec == Init /\ [][Next]_vars

(***************************************************************************)
(* Properties of extract_from_text on the general logs                     *)
(***************************************************************************)
\* the record the call is working on, once it is constructed
Constructed == extraction # None

CountsMatch(e) ==
    /\ e.total_tasks_completed = Len(e.completed_tasks)
    /\ e.total_blockers = Len(e.blockers)
    /\ e.total_incidents = Len(e.incidents)

CountsZero(e) ==
    /\ e.total_tasks_completed = 0
    /\ e.total_blockers = 0
    /\ e.total_incidents = 0

Descriptions(e) == { e.incidents[k].description : k \in 1..Len(e.incidents) }

Issues(e) == { e.blockers[k].issue : k \in 1..Len(e.blockers) }

\* C1: for every input text, the record extract_from_text returns has
\* total_tasks_completed = len(completed_tasks), total_blockers =
\* len(blockers) and total_incidents = len(incidents)
C1_ReturnedCountsMatch ==
    /\ pc \in {"return", "returned"} => CountsMatch(extraction[1])
    /\ \A c \in 1..Len(results) : CountsMatch(results[c])

\* a returned record with two non-empty lists
C1_Witness ==
    /\ pc = "returned"
    /\ Len(results[1].blockers) >= 1
    /\ Len(results[1].incidents) >= 1
    /\ results[1].total_blockers + results[1].total_incidents >= 2

\* C2: in every result, no blocker's issue equals the description of an
\* incident of the same result, of either pass
C2_NoBlockerIsAnIncident ==
    /\ pc \in {"calculate_stats", "return", "returned"}
         => Issues(extraction[1]) \cap Descriptions(extraction[1]) = {}
    /\ \A c \in 1..Len(results) : Issues(results[c]) \cap Descriptions(results[c]) = {}

\* a returned result with a sentence fallback incident whose sentence has a
\* blocker keyword and none of the strong incident indicators
C2_Witness ==
    /\ pc = "returned"
    /\ \E k \in 1..Len(results[1].incidents) :
         LET inc == results[1].incidents[k]
         IN /\ inc.incident_type # "safety"
            /\ HasBlockerKeyword(Lower(inc.description))
            /\ ~AnyIn(Lower(inc.description), STRONG_INCIDENT_INDICATORS)
            /\ inc.description \notin Issues(results[1])

\* C3: when the blocker classifier starts, the incident detector of the same
\* call has completed: the record holds the complete incident list of both
\* passes for this text, the claimed set is the set of its descriptions, and
\* the list does not change afterwards
C3_IncidentsBeforeBlockers ==
    /\ pc = "blockers"
         => /\ extraction[1].incidents = ExtractIncidents(Sentences(nlp, text), text)
            /\ extraction[1].blockers = << >>
    /\ pc \in {"blockers", "calculate_stats", "return", "returned"}
         => incident_sentences = Descriptions(extraction[1])

\* the blocker classifier about to start with a claimed set that holds a
\* header block and a fallback sentence
C3_Witness ==
    /\ pc = "blockers"
    /\ \E k \in 1..Len(incidents) : incidents[k].incident_type = "safety"
    /\ \E k \in 1..Len(incidents) : incidents[k].incident_type = "quality"
    /\ Cardinality(incident_sentences) = 2

\* no completion, blocker or incident keyword, no bullet, no header
NoRecognizableContent ==
    LET low == Lower(text)
        s == Sentences(nlp, text)
    IN /\ ~AnyIn(low, TASK_COMPLETION_KEYWORDS)
       /\ ~AnyIn(low, BLOCKER_KEYWORDS)
       /\ \A i \in 1..Len(INCIDENT_TYPES) : ~AnyIn(low, INCIDENT_KEYWORDS[INCIDENT_TYPES[i]])
       /\ \A k \in 1..Len(s) : \A m \in BULLETS : ~StartsWith(Strip(s[k]), m)
       /\ HeaderMatches(text) = << >>

\* C8: for a document with no recognizable content the call returns, with
\* completed_tasks, blockers and incidents empty and the three counts zero
C8_NothingFromNothing ==
    (pc = "returned" /\ NoRecognizableContent)
        => \A c \in 1..Len(results) :
             /\ results[c].completed_tasks = << >>
             /\ results[c].blockers = << >>
             /\ results[c].incidents = << >>
             /\ CountsZero(results[c])

\* a returned call on a non-empty text without recognizable content
C8_Witness ==
    /\ pc = "returned"
    /\ NoRecognizableContent
    /\ Len(Sentences(nlp, text)) >= 1
    /\ Len(results) >= 1

C10_CountsMatchAtAllTimes == Constructed => CountsMatch(extraction[1])

\* C10: the counts equal the lengths of the lists when the record is
\* constructed and from calculate_stats on; from the first list assignment to
\* calculate_stats the counts are 0 whatever the lists hold
C10_CountsMatchOnceCalculated ==
    Constructed =>
        /\ pc \in {"return", "returned"} => CountsMatch(extraction[1])
        /\ pc \notin {"return", "returned"} => CountsZero(extraction[1])
        /\ pc = "log_date" => CountsMatch(extraction[1])

\* lists are assigned, calculate_stats has not run
C10_Witness ==
    /\ pc = "calculate_stats"
    /\ Len(extraction[1].incidents) >= 1
    /\ Len(extraction[1].completed_tasks) >= 1
    /\ extraction[1].total_incidents = 0

(***************************************************************************)
(* Header blocks: texts of one or two SAFETY INCIDENT blocks               *)
(***************************************************************************)
\* a block of more than 80 characters, the same with one more sentence, and
\* a bare header line
Blocks ==
    << MajorHeader \o " " \o SlipReport,
       MajorHeader \o " " \o SlipReport \o " " \o HoldNote,
       MinorHeader \o " " \o CutReport >>

\* between two blocks: a space, a section break, a section break after a
\* trailing space
BlockJoins == << " ", "\n\nAdditionally, ", " \n\nAdditionally, " >>

\* the end of the text: with or without a final newline
EndPads == << "", "\n" >>

BlockTexts ==
    { Blocks[i] \o EndPads[e] : i \in 1..Len(Blocks), e \in 1..Len(EndPads) }
        \cup
    { Blocks[i] \o BlockJoins[j] \o Blocks[k] \o EndPads[e] :
        i \in 1..Len(Blocks), j \in 1..Len(BlockJoins),
        k \in 1..Len(Blocks), e \in 1..Len(EndPads) }

SpecBlocks == InitOn(BlockTexts) /\ [][Next]_vars

\* the positions of the text where "SAFETY INCIDENT - MAJOR:" stands as a
\* header, followed by at least 80 characters of description before the
\* block ends
MajorHeaderPositions ==
    LET low == Lower(text)
        stop(p) == Min({ t \in (p + 1)..(Len(text) + 1) : BlockBoundary(low, t) })
    IN { p \in 1..Len(text) :
           /\ At(text, p, MajorHeader)
           /\ WordBoundary(low, p)
           /\ Len(Strip(SubSeq(text, p + Len(MajorHeader), stop(p) - 1))) >= MIN_INCIDENT_LEN }

\* the header at p with its description, up to the end of its block
MajorBlockAt(p) ==
    LET low == Lower(text)
        stop == Min({ t \in (p + 1)..(Len(text) + 1) : BlockBoundary(low, t) })
    IN Strip(SubSeq(text, p, stop - 1))

\* C5: for a text with a "SAFETY INCIDENT - MAJOR:" header followed by at
\* least 80 characters of description, the result has an incident of type
\* safety and severity major whose description holds that header and its
\* description (it starts at the header, or at an earlier header of the same
\* block)
C5_MajorHeaderGivesMajorIncident ==
    pc = "returned" =>
        \A p \in MajorHeaderPositions :
            \E k \in 1..Len(results[1].incidents) :
                LET inc == results[1].incidents[k]
                IN /\ inc.incident_type = "safety"
                   /\ inc.severity = "major"
                   /\ Contains(inc.description, MajorBlockAt(p))

\* the text of header match i is strictly contained in that of match j,
\* whether the texts are taken as matched or stripped
StrictlyContained(matches, i, j) ==
    LET contained(a, b) == Contains(b, a) /\ Len(a) < Len(b)
    IN /\ i # j
       /\ \/ contained(matches[i].group0, matches[j].group0)
          \/ contained(Strip(matches[i].group0), Strip(matches[j].group0))

\* a match of at least 80 characters that no longer match contains
StandsAlone(matches, i) ==
    /\ Len(Strip(matches[i].group0)) >= MIN_INCIDENT_LEN
    /\ ~\E j \in 1..Len(matches) : StrictlyContained(matches, i, j)

\* C6: after Pass 1, a header match that is at least 80 characters long and
\* not strictly contained in a longer match has yielded an incident, and of
\* two matches of which one is contained in such a match only the longer
\* has
C6_OneIncidentPerStandaloneMatch ==
    pc = "incidents_pass2" =>
        LET matches == HeaderMatches(text)
            yielded(i) == \E k \in 1..Len(incidents) :
                             incidents[k].description = Strip(matches[i].group0)
        IN \A i \in 1..Len(matches) :
              /\ StandsAlone(matches, i) => yielded(i)
              /\ \A j \in 1..Len(matches) :
                    (StrictlyContained(matches, i, j) /\ StandsAlone(matches, j))
                        => (yielded(j) /\ ~yielded(i))

(***************************************************************************)
(* Dates: texts of a few lines, each of a known kind                       *)
(***************************************************************************)
NoDate == None

DateOf(y, m, d) == Some([ year |-> y, month |-> m, day |-> d ])

\* the lines: the pattern of _extract_date a line matches (0: none) and the
\* calendar date it names, day first, if it names one
DateLines ==
    << [ line |-> "Date: 15/10/2025",        pattern |-> 1, date |-> DateOf(2025, 10, 15) ],
       [ line |-> "Date: 31/02/2025",        pattern |-> 1, date |-> NoDate ],
       [ line |-> "date:5-1-2025",           pattern |-> 2, date |-> DateOf(2025, 1, 5) ],
       [ line |-> "Date: 15-13-2025",        pattern |-> 2, date |-> NoDate ],
       [ line |-> "Logged on 29 February 2024", pattern |-> 3, date |-> DateOf(2024, 2, 29) ],
       [ line |-> "30 february 2023",        pattern |-> 3, date |-> NoDate ],
       [ line |-> "Report of the day",       pattern |-> 0, date |-> NoDate ] >>

\* the number of lines of a date text
MaxDateLines == 2

\* the texts as sequences of indices into DateLines
DateTextShapes == UNION { [1..n -> 1..Len(DateLines)] : n \in 0..MaxDateLines }

DateTextOf(shape) == Join([ k \in 1..Len(shape) |-> DateLines[shape[k]].line ], "\n")

DateTexts == { DateTextOf(shape) : shape \in DateTextShapes }

SpecDate == InitOn(DateTexts) /\ [][Next]_vars

\* the date of the first line of a text that matches pattern q, if there is
\* such a line and it names a calendar date
FirstOfPattern(shape, q) ==
    LET lines == { k \in 1..Len(shape) : DateLines[shape[k]].pattern = q }
    IN IF lines = {} THEN NoDate ELSE DateLines[shape[Min(lines)]].date

\* the first successful parse, the patterns tried in their order
ExpectedDate(shape) ==
    LET ok == { q \in 1..NUM_DATE_PATTERNS : FirstOfPattern(shape, q) # NoDate }
    IN IF ok = {} THEN NoDate ELSE FirstOfPattern(shape, Min(ok))

\* C7: _extract_date returns the first successful calendar parse, the
\* patterns tried in the order Date: DD/MM/YYYY, Date: DD-MM-YYYY,
\* DD <Month> YYYY, day first; a match that names no calendar date is passed
\* over, and the result is None when no pattern yields a date
C7_FirstSuccessfulParse ==
    pc \notin {"construct", "log_date"} =>
        /\ \A shape \in DateTextShapes :
              text = DateTextOf(shape) => extraction[1].log_date = ExpectedDate(shape)
        /\ text = "Date: 15/10/2025" => extraction[1].log_date = DateOf(2025, 10, 15)
        /\ text = "Date: 31/02/2025" => extraction[1].log_date = NoDate

\* the date is set, from a later pattern, after a match of the first pattern
\* that names no calendar date
C7_Witness ==
    /\ pc = "site_name"
    /\ Contains(text, "Date: 31/02/2025")
    /\ extraction[1].log_date = DateOf(2024, 2, 29)

(***************************************************************************)
(* Site names: texts of a few header lines                                 *)
(***************************************************************************)
SiteLines ==
    << "Project: Al Noor Heights",
       "Site: Marina East",
       "Work at sedra phase 2",
       "ALAROUS Daily Report",
       "Daily Report - Block 7",
       "Site: ABC" >>

\* the number of lines of a site text
MaxSiteLines == 2

SiteTexts ==
    { Join([ k \in 1..Len(shape) |-> SiteLines[shape[k]] ], "\n") :
        shape \in UNION { [1..n -> 1..Len(SiteLines)] : n \in 0..MaxSiteLines } }

SpecSite == InitOn(SiteTexts) /\ [][Next]_vars

\* C4: if the text contains "SEDRA" in any case, site_name is exactly
\* "SEDRA", whatever the headers say and whatever other known names occur;
\* and when a known site name occurs the result is a known site name, not a
\* header's capture
C4_SedraFirst ==
    pc \notin {"construct", "log_date", "site_name"} =>
        LET low == Lower(text)
        IN /\ Contains(low, "sedra") => extraction[1].site_name = Some("SEDRA")
           /\ (\E i \in 1..Len(SITE_NAMES) : Contains(low, Lower(SITE_NAMES[i])))
                 => \E i \in 1..Len(SITE_NAMES) : extraction[1].site_name = Some(SITE_NAMES[i])

\* site_name is set on a text that has "sedra" in lower case after a header
\* naming another known site
C4_Witness ==
    /\ pc = "submitted_by"
    /\ text = "Site: Marina East\nWork at sedra phase 2"
    /\ extraction[1].site_name = Some("SEDRA")

(***************************************************************************)
(* Concurrent calls on one extractor (src/api.py: the module-level         *)
(* `extractor` serves every request).  Each call has its own frame; in     *)
(* the specification of this section every variable but nlp holds one      *)
(* value per call, and a step runs one statement of one call.              *)
(***************************************************************************)
\* the calls in flight
Calls == {1, 2}

\* the documents of the requests
RequestTexts == { QualityNote, DelayNote, TaskNote, PlainNote }

\* the frame of a call that has just been entered with a text
EnteredWith(t) ==
    [ text |-> t, pc |-> "construct", extraction |-> None, sentences |-> << >>,
      incidents |-> << >>, incident_sentences |-> {} ]

\* frame f with extraction.<field> assigned, at its next statement
Assigned(f, e, next) == [ f EXCEPT !.extraction = Some(e), !.pc = next ]

\* line 72: the list _extract_incidents returns is assigned to extraction.incidents
WithIncidents(f, list) ==
    [ f EXCEPT !.incidents = list,
               !.extraction = Some([ f.extraction[1] EXCEPT !.incidents = list ]),
               !.pc = "incident_sentences" ]

\* the statement of extract_from_text that frame f is at, run with backend b:
\* the frame after it
StatementAt(b, f) ==
    CASE f.pc = "construct" -> Assigned(f, DailyLogExtraction(f.text), "log_date")
      [] f.pc = "log_date" ->
            Assigned(f, [ f.extraction[1] EXCEPT !.log_date = ExtractDate(f.text) ], "site_name")
      [] f.pc = "site_name" ->
            Assigned(f, [ f.extraction[1] EXCEPT !.site_name = ExtractSiteName(f.text) ],
                     "submitted_by")
      [] f.pc = "submitted_by" ->
            Assigned(f, [ f.extraction[1] EXCEPT !.submitted_by = ExtractManagerName(f.text) ],
                     "nlp")
      [] f.pc = "nlp" -> [ f EXCEPT !.sentences = Sentences(b, f.text), !.pc = "incidents_pass1" ]
      [] f.pc = "incidents_pass1" ->
            [ f EXCEPT !.incidents = BlockIncidents(f.text), !.pc = "incidents_pass2" ]
      [] f.pc = "incidents_pass2" ->
            WithIncidents(f, SentenceIncidents(f.sentences, 1, f.incidents))
      [] f.pc = "incident_sentences" ->
            [ f EXCEPT !.incident_sentences = IncidentSentences(f.extraction[1].incidents),
                       !.pc = "completed_tasks" ]
      [] f.pc = "completed_tasks" ->
            Assigned(f, [ f.extraction[1] EXCEPT
                            !.completed_tasks = ExtractTasks(b, f.sentences) ], "blockers")
      [] f.pc = "blockers" ->
            Assigned(f, [ f.extraction[1] EXCEPT
                            !.blockers = ExtractBlockers(f.sentences, f.incident_sentences) ],
                     "calculate_stats")
      [] f.pc = "calculate_stats" -> Assigned(f, CalculateStats(f.extraction[1]), "return")
      [] f.pc = "return" -> [ f EXCEPT !.pc = "returned" ]

\* extract_from_text(text) run alone, from its entry to its return
RECURSIVE RunAlone(_, _)
RunAlone(b, f) == IF f.pc = "returned" THEN f.extraction[1] ELSE RunAlone(b, StatementAt(b, f))

ExtractFromText(b, t) == RunAlone(b, EnteredWith(t))

\* incident_sentences kept on the extractor, where the other call overwrites it
ClaimedSetOfOtherCall(c) == incident_sentences[CHOOSE d \in Calls : d # c]

\* the incident_sentences that call c reads at line 78: its own local
ClaimedSetOf(c) == incident_sentences[c]

\* the frame of call c
FrameOf(c) ==
    [ text |-> text[c], pc |-> pc[c], extraction |-> extraction[c],
      sentences |-> sentences[c], incidents |-> incidents[c],
      incident_sentences |-> ClaimedSetOf(c) ]

\* call c's frame becomes g; what it returns is delivered to its caller
FrameBecomes(c, g) ==
    /\ text' = [ text EXCEPT ![c] = g.text ]
    /\ pc' = [ pc EXCEPT ![c] = g.pc ]
    /\ extraction' = [ extraction EXCEPT ![c] = g.extraction ]
    /\ sentences' = [ sentences EXCEPT ![c] = g.sentences ]
    /\ incidents' = [ incidents EXCEPT ![c] = g.incidents ]
    /\ incident_sentences' = [ incident_sentences EXCEPT ![c] = g.incident_sentences ]
    /\ results' = [ results EXCEPT ![c] = IF g.pc = "returned" THEN g.extraction ELSE None ]
    /\ UNCHANGED nlp

\* the service after startup, with one request per call
InitConcurrent ==
    /\ nlp \in Backends
    /\ text \in [ Calls -> RequestTexts ]
    /\ pc = [ c \in Calls |-> "construct" ]
    /\ extraction = [ c \in Calls |-> None ]
    /\ sentences = [ c \in Calls |-> << >> ]
    /\ incidents = [ c \in Calls |-> << >> ]
    /\ incident_sentences = [ c \in Calls |-> {} ]
    /\ results = [ c \in Calls |-> None ]

\* call c runs its next statement
Advance(c) ==
    /\ pc[c] # "returned"
    /\ FrameBecomes(c, StatementAt(nlp, FrameOf(c)))

\* src/api.py line 97: the next request, served by a new call on the same extractor
NextRequest(c) ==
    /\ pc[c] = "returned"
    /\ \E t \in RequestTexts : FrameBecomes(c, EnteredWith(t))

NextConcurrent == \E c \in Calls : Advance(c) \/ NextRequest(c)

SpecConcurrent == InitConcurrent /\ [][NextConcurrent]_vars

\* C11: what a call returns for a document is what extract_from_text returns
\* for it when run alone, whatever the other call does meanwhile and whatever
\* documents were extracted before; and no step changes the backend
C11_CallsAreIndependent ==
    /\ nlp \in Backends
    /\ \A c \in Calls :
          /\ pc[c] = "returned" => results[c] = Some(ExtractFromText(nlp, text[c]))
          /\ pc[c] # "returned" => results[c] = None

\* a call returns a blocker for its document while the other call, on a
\* document whose only sentence is an incident, is between its statements
C11_Witness ==
    /\ pc[1] = "returned"
    /\ text[1] = DelayNote
    /\ Len(results[1][1].blockers) = 1
    /\ text[2] = QualityNote
    /\ pc[2] = "blockers"
    /\ incident_sentences[2] # {}

(***************************************************************************)
(* Startup: DailyLogExtractor.__init__ (src/extractor.py lines 35-43),     *)
(* called once when src/api.py is loaded (line 43)                         *)
(***************************************************************************)
\* the process starts: __init__ has not run, self.nlp is not set
InitStartup ==
    /\ nlp = None
    /\ text \in RequestTexts
    /\ pc = "startup"
    /\ extraction = None
    /\ sentences = << >>
    /\ incidents = << >>
    /\ incident_sentences = {}
    /\ results = << >>

\* line 38: spacy.load returns a backend; the service takes its first request
LoadBackend ==
    /\ pc = "startup"
    /\ nlp' \in Backends
    /\ pc' = "construct"
    /\ UNCHANGED << text, extraction, sentences, incidents, incident_sentences, results >>

\* an `except OSError` that logs the failure and goes on without a backend
LoadFailsDegraded ==
    /\ pc = "startup"
    /\ pc' = "construct"
    /\ UNCHANGED << nlp, text, extraction, sentences, incidents, incident_sentences, results >>

\* lines 39-43: spacy.load raises OSError, __init__ prints and re-raises; the
\* assignment of api.py line 43 does not complete and the module fails to load
LoadFails ==
    /\ pc = "startup"
    /\ pc' = "aborted"
    /\ UNCHANGED << nlp, text, extraction, sentences, incidents, incident_sentences, results >>

NextStartup == LoadBackend \/ LoadFails \/ Next

SpecStartup == InitStartup /\ [][NextStartup]_vars

\* C12: when loading the backend fails the startup aborts with no extractor
\* and nothing extracted, and every statement of an extraction call runs on
\* an extractor whose backend is loaded
C12_NoExtractionWithoutBackend ==
    /\ pc = "aborted" => (nlp = None /\ extraction = None /\ results = << >>)
    /\ pc \notin {"startup", "aborted"} => nlp \in Backends

\* the load has failed
C12_Witness == pc = "aborted" /\ nlp = None /\ results = << >>

(***************************************************************************)
(* Site notes: texts of one or two sentences that the three classifiers    *)
(* see differently                                                         *)
(***************************************************************************)
ReworkNote == "Completed rework of the defect at Level 2 slab."

SpillNote == "Oil spill created a slip hazard near the gate."

WasteNote == "Defect produced waste at the batching plant."

KeywordBulletNote == "- Installed rebar at Zone C-1 for the east wing"

ShortBulletNote == "- Rebar fixing Zone C"

CrewBulletNote == "- Crew count delivered to the office at noon"

Notes ==
    << ReworkNote, SpillNote, WasteNote, BulletNote, KeywordBulletNote, ShortBulletNote,
       CrewBulletNote >>

\* between two notes: on one line, or on two
NoteJoins == << " ", "\n" >>

\* the number of notes of a text
MaxNotes == 2

RECURSIVE NoteTextsOf(_)
NoteTextsOf(n) ==
    IF n = 0 THEN {""}
    ELSE IF n = 1 THEN { Notes[i] : i \in 1..Len(Notes) }
    ELSE { d \o NoteJoins[j] \o Notes[i] :
             d \in NoteTextsOf(n - 1), j \in 1..Len(NoteJoins), i \in 1..Len(Notes) }

NoteTexts == UNION { NoteTextsOf(n) : n \in 0..MaxNotes }

SpecNotes == InitOn(NoteTexts) /\ [][Next]_vars

\* the sentences of the text the call is working on
TextSentences == Sentences(nlp, text)

\* the tasks of record e named after the text s
TasksNamed(e, s) == { k \in 1..Len(e.completed_tasks) : e.completed_tasks[k].task_name = s }

\* the sentence passes the task filters of the keyword rule: long enough, no
\* section header, a completion keyword, no summary and no crew count
PassesTaskFilters(s) ==
    LET low == Lower(s)
    IN /\ Len(Strip(s)) >= 25
       /\ Strip(low) \notin {"progress achieved:", "incidents and issues:"}
       /\ AnyIn(low, TASK_COMPLETION_KEYWORDS)
       /\ ~StartsWith(Strip(low), "total ") /\ ~StartsWith(Strip(low), "only ")
       /\ ~IsQuantitySentence(Strip(low))
       /\ ~Contains(low, "crew count")

\* C13: every sentence that passes the task filters is emitted as a
\* CompletedTask, also when it is the description of an incident of the same
\* result
C13_TasksIgnoreClaimedSets ==
    pc = "returned" =>
        \A i \in 1..Len(TextSentences) :
            PassesTaskFilters(TextSentences[i])
                => TasksNamed(results[1], Strip(TextSentences[i])) # {}

\* a returned result in which one sentence is a task and an incident
C13_Witness ==
    /\ pc = "returned"
    /\ \E k \in 1..Len(results[1].completed_tasks) :
          results[1].completed_tasks[k].task_name \in Descriptions(results[1])

(***************************************************************************)
(* Properties of the classifiers on the header blocks                      *)
(***************************************************************************)
\* the descriptions of the Pass-1 incidents of the text
BlockDescriptions ==
    { BlockIncidents(text)[k].description : k \in 1..Len(BlockIncidents(text)) }

\* the sentence's trimmed text lies inside the description d
LiesInside(s, d) == Strip(s) # "" /\ Contains(d, Strip(s))

\* C14: no sentence whose trimmed text lies inside the description of a
\* Pass-1 incident is emitted as a blocker
C14_NoBlockerInsideABlock ==
    pc = "returned" =>
        \A i \in 1..Len(TextSentences) :
            (\E d \in BlockDescriptions : LiesInside(TextSentences[i], d))
                => Strip(TextSentences[i]) \notin Issues(results[1])

\* C16: every sentence with a "safety incident" marker, which Pass 2 leaves
\* to Pass 1, is part of the description of a Pass-1 incident of the
\* returned list
C16_MarkedSentencesAreInBlocks ==
    pc = "returned" =>
        \A i \in 1..Len(TextSentences) :
            Contains(Lower(TextSentences[i]), "safety incident")
                => \E d \in BlockDescriptions \cap Descriptions(results[1]) :
                      LiesInside(TextSentences[i], d)

(***************************************************************************)
(* Properties of the classifiers on the site notes                         *)
(***************************************************************************)
\* the sentence is one that Pass 2 is to classify: it lies inside no Pass-1
\* description, is no section header or boilerplate, carries no
\* safety-incident marker, and has a keyword of some category
IsFallbackIncident(s) ==
    LET low == Lower(s)
    IN /\ \A d \in BlockDescriptions : ~Contains(d, Strip(s))
       /\ Strip(low) \notin {"incidents and issues:", "incidents:", "incident and issues"}
       /\ ~Contains(low, "crew count") /\ ~Contains(low, "operations continue")
       /\ ~Contains(low, "safety incident") /\ ~Contains(low, "incident -")
       /\ \E type \in DOMAIN INCIDENT_KEYWORDS : AnyIn(low, INCIDENT_KEYWORDS[type])

\* C15: every sentence that Pass 2 is to classify produces exactly one
\* incident, also when its text equals or lies inside an earlier sentence:
\* the result has one incident for each header block and one for each such
\* sentence
C15_OneIncidentPerFallbackSentence ==
    pc = "returned" =>
        Len(results[1].incidents) =
            Len(BlockIncidents(text))
              + Cardinality({ i \in 1..Len(TextSentences) : IsFallbackIncident(TextSentences[i]) })

(***************************************************************************)
(* Section breaks: a header, with or without a report on its line,         *)
(* followed by paragraphs that start after a blank line                    *)
(***************************************************************************)
NearMissNote == "Additionally, the crane operator reported a near miss at Tower B."

ClosedNote == "The area was closed for the day."

CrewNote == "Crew count: 45 workers on site today."

\* the start of the text: a header with its report, and a header alone
BreakHeads == << MajorHeader \o " " \o SlipReport, MajorHeader >>

\* the paragraphs that follow, each after a blank line
BreakTails == << NearMissNote, ClosedNote, CrewNote, MinorHeader \o " " \o CutReport >>

MaxTails == 2

RECURSIVE TailTextsOf(_)
TailTextsOf(n) ==
    IF n = 0 THEN { "" }
    ELSE { "\n\n" \o BreakTails[j] \o rest :
             j \in 1..Len(BreakTails), rest \in TailTextsOf(n - 1) }

BreakTexts ==
    { BreakHeads[i] \o rest :
        i \in 1..Len(BreakHeads), rest \in UNION { TailTextsOf(n) : n \in 0..MaxTails } }

SpecBreaks == InitOn(BreakTexts) /\ [][Next]_vars

\* the first blank line at or after p that is immediately followed by
\* "Additionally" or "Crew count", or the end of the document
FirstBoundaryFrom(low, p) ==
    Min({ t \in p..(Len(low) + 1) : BlockBoundary(low, t) })

\* d is the text from a SAFETY INCIDENT header of the document to the first
\* boundary that follows the header
RunsToFirstBoundary(d) ==
    \E p \in 1..Len(text) :
        /\ At(text, p, "SAFETY INCIDENT")
        /\ d = Strip(SubSeq(text, p,
                            FirstBoundaryFrom(Lower(text), p + Len("SAFETY INCIDENT")) - 1))

\* C17: after Pass 1 every block description runs from a SAFETY INCIDENT
\* header to the first following blank line that is immediately followed by
\* "Additionally" or "Crew count", or to the end of the document: it has no
\* such boundary in its interior and does not end at another blank line
C17_BlocksRunToTheFirstBoundary ==
    pc = "incidents_pass2" =>
        \A k \in 1..Len(incidents) : RunsToFirstBoundary(incidents[k].description)

\* the sentence starts with a bullet marker and its content after the marker
\* has more than 10 characters
IsBulletSentence(s) ==
    /\ StartsWith(s, "-")
    /\ Len(Strip(LStripChars(s, {"-"}))) > 10

\* C18: every sentence that the loop does not skip at its top (25
\* characters or more, no section header), that begins with a bullet marker
\* and has more than 10 characters after the marker, is emitted as a
\* CompletedTask, with or without a completion keyword
C18_BulletsAreTasksWhateverTheKeywords ==
    pc = "returned" =>
        \A i \in 1..Len(TextSentences) :
            (~SkippedAsTask(TextSentences[i]) /\ IsBulletSentence(TextSentences[i]))
                => TasksNamed(results[1], Strip(TextSentences[i])) # {}

\* C19: each sentence of the document contributes at most one CompletedTask:
\* the result has no more tasks than the document has sentences, and no more
\* tasks of one name than the document has sentences of that name
C19_AtMostOneTaskPerSentence ==
    pc = "returned" =>
        /\ results[1].total_tasks_completed <= Len(TextSentences)
        /\ \A k \in 1..Len(results[1].completed_tasks) :
              Cardinality(TasksNamed(results[1], results[1].completed_tasks[k].task_name))
                  <= Cardinality({ i \in 1..Len(TextSentences) :
                        Strip(TextSentences[i]) = results[1].completed_tasks[k].task_name })

\* the categories that have a keyword in the lowered sentence
CategoriesOf(low) == { type \in DOMAIN INCIDENT_KEYWORDS : AnyIn(low, INCIDENT_KEYWORDS[type]) }

\* safety before quality before environmental
FirstCategory(low) ==
    IF AnyIn(low, INCIDENT_KEYWORDS.safety) THEN "safety"
    ELSE IF AnyIn(low, INCIDENT_KEYWORDS.quality) THEN "quality"
    ELSE "environmental"

\* the incidents of record e whose description is the text s
IncidentsDescribed(e, s) == { k \in 1..Len(e.incidents) : e.incidents[k].description = s }

\* the text s lies inside the description of another incident of record e
InsideAnotherIncident(e, s) == \E d \in Descriptions(e) \ {s} : Contains(d, s)

\* C20: a sentence that Pass 2 is to classify, and that is not part of
\* another incident, is classified into one category only, the first of
\* safety, quality, environmental that has a keyword in it: the result holds
\* exactly one incident with the sentence as its description, and that
\* incident has this category
C20_FirstCategoryWins ==
    pc = "returned" =>
        \A i \in 1..Len(TextSentences) :
            (/\ IsFallbackIncident(TextSentences[i])
             /\ ~InsideAnotherIncident(results[1], Strip(TextSentences[i])))
                => \E k \in 1..Len(results[1].incidents) :
                      /\ IncidentsDescribed(results[1], Strip(TextSentences[i])) = {k}
                      /\ results[1].incidents[k].incident_type
                            = FirstCategory(Lower(TextSentences[i]))

\* a returned result with an incident for a sentence that has keywords of
\* several categories
C20_Witness ==
    /\ pc = "returned"
    /\ \E i \in 1..Len(TextSentences) :
          /\ IsFallbackIncident(TextSentences[i])
          /\ ~InsideAnotherIncident(results[1], Strip(TextSentences[i]))
          /\ Cardinality(CategoriesOf(Lower(TextSentences[i]))) >= 2
          /\ IncidentsDescribed(results[1], Strip(TextSentences[i])) # {}

(***************************************************************************)
(* Severity: header blocks with each header label and each kind of body    *)
(***************************************************************************)
ModerateHeader == "SAFETY INCIDENT - MODERATE:"

BareHeader == "SAFETY INCIDENT:"

SeriousReport == "Scaffold plank gave way at Level 2 and caused a serious injury to one worker."

DustReport == "Significant dust was reported near the batching plant and the area was cleared."

WorseReport == "A moderate cut became severe and the worker was taken to the site hospital."

SeverityHeaders == << MajorHeader, MinorHeader, ModerateHeader, BareHeader >>

SeverityBodies == << SlipReport, SeriousReport, DustReport, WorseReport >>

\* after the block: nothing, or a section break and one more paragraph
SeverityTails == << "", "\n\n" \o DelayNote >>

SeverityTexts ==
    { SeverityHeaders[h] \o " " \o SeverityBodies[b] \o SeverityTails[t] :
        h \in 1..Len(SeverityHeaders), b \in 1..Len(SeverityBodies),
        t \in 1..Len(SeverityTails) }

SpecSeverity == InitOn(SeverityTexts) /\ [][Next]_vars

\* the word that follows "SAFETY INCIDENT" and its separators in the
\* description d of a block
HeaderWordFrom(d, a) == SubSeq(d, a, RunEnd(d, a, IsWord) - 1)

HeaderWord(d) == HeaderWordFrom(d, RunEnd(d, Len("SAFETY INCIDENT") + 1, IsHeaderSep))

\* the severity the precedence gives to the block of description d
SeverityByPrecedence(d) ==
    IF Lower(HeaderWord(d)) = "major" THEN "major"
    ELSE IF \E w \in {"major", "serious", "severe", "critical"} : Contains(Lower(d), w)
         THEN "major"
    ELSE IF \E w \in {"moderate", "significant"} : Contains(Lower(d), w) THEN "moderate"
    ELSE "minor"

\* C21: after Pass 1 the severity of every block is major if its header word
\* is "major", else major if a major-indicator word occurs in the block,
\* else moderate if a moderate-indicator word occurs, else minor; it is
\* never unset
C21_SeverityPrecedence ==
    pc = "incidents_pass2" =>
        \A k \in 1..Len(incidents) :
            /\ incidents[k].severity \in {"major", "moderate", "minor"}
            /\ incidents[k].severity = SeverityByPrecedence(incidents[k].description)

\* a block whose header says MINOR or MODERATE and whose body has a
\* major-indicator word, rated major after Pass 1
C21_Witness ==
    /\ pc = "incidents_pass2"
    /\ \E k \in 1..Len(incidents) :
          /\ Lower(HeaderWord(incidents[k].description)) \in {"minor", "moderate"}
          /\ Contains(Lower(incidents[k].description), "serious")
          /\ incidents[k].severity = "major"

(***************************************************************************)
(* Hold-ups: sentences with blocker keywords and cause words               *)
(***************************************************************************)
CraneNote == "Crane is unavailable due to high wind."

StormNote == "Work is on hold pending permit approval after the storm."

PermitNote == "Facade work is pending permit approval."

PaintNote == "Painting is on hold until further notice."

FellNote == "A worker fell behind schedule and work is delayed."

FallNote == "Work was delayed after the fall at Level 3."

LiftNote == "Lift inspection is pending at the east core."

PourNote == "Concrete pour went as planned."

HoldUps ==
    << DelayNote, CraneNote, StormNote, PermitNote, PaintNote, FellNote, FallNote,
       LiftNote, PourNote >>

\* the number of sentences of a text
MaxHoldUps == 2

RECURSIVE HoldUpTextsOf(_)
HoldUpTextsOf(n) ==
    IF n = 0 THEN {""}
    ELSE IF n = 1 THEN { HoldUps[i] : i \in 1..Len(HoldUps) }
    ELSE { d \o " " \o HoldUps[i] : d \in HoldUpTextsOf(n - 1), i \in 1..Len(HoldUps) }

HoldUpTexts == UNION { HoldUpTextsOf(n) : n \in 0..MaxHoldUps }

SpecHoldUps == InitOn(HoldUpTexts) /\ [][Next]_vars

\* C22: no Blocker of a result has an issue text that contains, in any case
\* of letters, one of incident, accident, injury, injured, tipped over,
\* fall, fell; every Blocker's issue text contains a blocker keyword
C22_BlockersAreNoIncidents ==
    pc = "returned" =>
        \A k \in 1..Len(results[1].blockers) :
            /\ \A w \in {"incident", "accident", "injury", "injured", "tipped over",
                         "fall", "fell"} :
                  ~Contains(Lower(results[1].blockers[k].issue), w)
            /\ AnyIn(Lower(results[1].blockers[k].issue), BLOCKER_KEYWORDS)

\* a returned result with a blocker, for a text that also has a sentence
\* with a blocker keyword and the word "fell" that is no incident of the
\* result
C22_Witness ==
    /\ pc = "returned"
    /\ results[1].blockers # << >>
    /\ \E i \in 1..Len(TextSentences) :
          /\ Contains(Lower(TextSentences[i]), "fell")
          /\ AnyIn(Lower(TextSentences[i]), BLOCKER_KEYWORDS)
          /\ Strip(TextSentences[i]) \notin Descriptions(results[1])
          /\ Strip(TextSentences[i]) \notin Issues(results[1])

\* the cause the priority order gives to the lowered sentence: material
\* delay, equipment failure, weather, approval delay, or unset
CauseByPriority(low) ==
    IF \E w \in {"material", "supply", "delivery", "shortage", "steel", "concrete", "rebar"} :
          Contains(low, w)
    THEN Some("material_delay")
    ELSE IF \E w \in {"equipment", "crane", "machine"} : Contains(low, w)
    THEN Some("equipment_failure")
    ELSE IF \E w \in {"weather", "rain", "wind", "storm"} : Contains(low, w)
    THEN Some("weather")
    ELSE IF \E w \in {"approval", "permit"} : Contains(low, w)
    THEN Some("approval_delay")
    ELSE None

\* C23: the cause of every Blocker is that of the first group, in the order
\* material delay, equipment failure, weather, approval delay, that has a
\* word in its sentence, and is unset when no group has one; it takes no
\* other value, and affected_task is unset
C23_CauseByPriority ==
    pc = "returned" =>
        \A k \in 1..Len(results[1].blockers) :
            /\ results[1].blockers[k].cause
                  = CauseByPriority(Lower(results[1].blockers[k].issue))
            /\ results[1].blockers[k].cause
                  \in { Some("material_delay"), Some("equipment_failure"), Some("weather"),
                        Some("approval_delay"), None }
            /\ results[1].blockers[k].affected_task = None

\* a returned result with a blocker that has words of two groups and the
\* cause of the earlier group, and a blocker without a cause
C23_Witness ==
    /\ pc = "returned"
    /\ \E k \in 1..Len(results[1].blockers) :
          /\ AnyIn(Lower(results[1].blockers[k].issue), EQUIPMENT_WORDS)
          /\ AnyIn(Lower(results[1].blockers[k].issue), WEATHER_WORDS)
          /\ results[1].blockers[k].cause = Some("equipment_failure")
    /\ \E k \in 1..Len(results[1].blockers) : results[1].blockers[k].cause = None

(***************************************************************************)
(* Actions: a header block whose report is followed by action sentences    *)
(***************************************************************************)
AidNote == "First aid given on site."

ManagerNote == "Site manager notified at once."

ClinicNote == "Worker taken to the site clinic."

StopNote == "Crew stopped all lifting work."

CordonNote == "Action: area cordoned off."

AidAndClinicNote == "First aid given and worker taken to the site clinic."

UnhurtNote == "Nobody was hurt."

ActionNotes ==
    << AidNote, ManagerNote, ClinicNote, StopNote, CordonNote, AidAndClinicNote, UnhurtNote >>

\* the number of action sentences of a text
MaxActionNotes == 2

RECURSIVE ActionTextsOf(_)
ActionTextsOf(n) ==
    IF n = 0 THEN { MajorHeader \o " " \o SlipReport }
    ELSE { d \o " " \o ActionNotes[i] : d \in ActionTextsOf(n - 1), i \in 1..Len(ActionNotes) }

ActionTexts == UNION { ActionTextsOf(n) : n \in 0..MaxActionNotes }

SpecActions == InitOn(ActionTexts) /\ [][Next]_vars

\* the matches of the five action patterns in the text d, each with the
\* index of its pattern
PatternMatches(d) ==
    UNION { { [ pattern |-> i, start |-> ActionMatches(i, d, Lower(d))[k].start,
                stop |-> ActionMatches(i, d, Lower(d))[k].stop ] :
              k \in 1..Len(ActionMatches(i, d, Lower(d))) } :
            i \in 1..NUM_ACTION_PATTERNS }

\* a comes before b: by pattern index, then by position in the text
ComesBefore(a, b) ==
    a.pattern < b.pattern \/ (a.pattern = b.pattern /\ a.start < b.start)

\* the matches of the set S, ordered by pattern index and then by position
RECURSIVE InPatternOrder(_)
InPatternOrder(S) ==
    IF S = {} THEN << >>
    ELSE LET first == CHOOSE a \in S : \A b \in S \ {a} : ComesBefore(a, b)
         IN << first >> \o InPatternOrder(S \ {first})

\* the phrases of the matches ms of the text d, joined with "; "
JoinedPhrases(d, ms) ==
    Join([ k \in 1..Len(ms) |-> Strip(SubSeq(d, ms[k].start, ms[k].stop - 1)) ], "; ")

\* C24: the action_taken of every incident is the phrases of all matches of
\* the five action patterns in the incident's text, ordered by pattern index
\* and then by position and joined with "; "; it is None when no pattern
\* matches, and never the empty string
C24_ActionsByPatternThenPosition ==
    pc = "returned" =>
        \A k \in 1..Len(results[1].incidents) :
            /\ results[1].incidents[k].action_taken # Some("")
            /\ results[1].incidents[k].action_taken =
                  IF PatternMatches(results[1].incidents[k].description) = {} THEN None
                  ELSE Some(JoinedPhrases(results[1].incidents[k].description,
                          InPatternOrder(PatternMatches(results[1].incidents[k].description))))

\* a returned incident with matches of two patterns, the match of the later
\* pattern standing earlier in the text
C24_Witness ==
    /\ pc = "returned"
    /\ \E k \in 1..Len(results[1].incidents) :
          /\ results[1].incidents[k].action_taken # None
          /\ \E a, b \in PatternMatches(results[1].incidents[k].description) :
                a.pattern < b.pattern /\ b.start < a.start

\* C25: the matches collected into action_taken do not overlap: no two of
\* them, of one pattern or of two, cover a common character of the
\* incident's text
C25_ActionsDoNotOverlap ==
    pc = "returned" =>
        \A k \in 1..Len(results[1].incidents) :
            \A a, b \in PatternMatches(results[1].incidents[k].description) :
                a # b => (a.stop <= b.start \/ b.stop <= a.start)

(***************************************************************************)
(* Order: header blocks and incident sentences in any order, each piece    *)
(* in a section of its own                                                 *)
(***************************************************************************)
OrderPieces ==
    << MajorHeader \o " " \o SlipReport, MinorHeader \o " " \o SeriousReport,
       QualityNote, SpillNote >>

SectionBreak == "\n\nAdditionally, "

\* the number of pieces of a text
MaxPieces == 3

RECURSIVE OrderTextsOf(_)
OrderTextsOf(n) ==
    IF n = 1 THEN { OrderPieces[i] : i \in 1..Len(OrderPieces) }
    ELSE { d \o SectionBreak \o OrderPieces[i] :
             d \in OrderTextsOf(n - 1), i \in 1..Len(OrderPieces) }

OrderTexts == UNION { OrderTextsOf(n) : n \in 1..MaxPieces }

SpecOrder == InitOn(OrderTexts) /\ [][Next]_vars

\* the description d is that of a header block
IsBlockDescription(d) == StartsWith(d, "SAFETY INCIDENT")

\* the text c stands in the document before the text d
StandsBefore(c, d) ==
    \E p, q \in 1..Len(text) : p < q /\ At(text, p, c) /\ At(text, q, d)

\* the sentence of text c comes before the sentence of text d
SentenceBefore(c, d) ==
    \E a, b \in 1..Len(TextSentences) :
        a < b /\ Strip(TextSentences[a]) = c /\ Strip(TextSentences[b]) = d

\* the incidents c, d of a list, c first, are in the order of the two passes
InPassOrder(c, d) ==
    /\ IsBlockDescription(d) => IsBlockDescription(c)
    /\ (IsBlockDescription(c) /\ IsBlockDescription(d)) => StandsBefore(c, d)
    /\ (~IsBlockDescription(c) /\ ~IsBlockDescription(d)) => SentenceBefore(c, d)

\* C26: in the returned incident list all header-block incidents come
\* before all sentence incidents; the header-block incidents are in the
\* order of their headers in the document and the sentence incidents in
\* sentence order
C26_BlocksThenSentences ==
    pc = "returned" =>
        \A j, k \in 1..Len(results[1].incidents) :
            j < k => InPassOrder(results[1].incidents[j].description,
                                 results[1].incidents[k].description)

\* a returned list that is not in document order: a header-block incident
\* listed before the incident of a sentence that stands before the block
C26_Witness ==
    /\ pc = "returned"
    /\ \E j, k \in 1..Len(results[1].incidents) :
          /\ j < k
          /\ IsBlockDescription(results[1].incidents[j].description)
          /\ ~IsBlockDescription(results[1].incidents[k].description)
          /\ StandsBefore(results[1].incidents[k].description,
                          results[1].incidents[j].description)

(***************************************************************************)
(* Properties of the metadata extractors on the site texts                 *)
(***************************************************************************)
\* the text names no known site
NoKnownSite == \A i \in 1..Len(SITE_NAMES) : ~Contains(Lower(text), Lower(SITE_NAMES[i]))

\* the trimmed capture of header pattern i in the text, or None
TrimmedCapture(i) == StrippedGroup(SiteSearch(i, text, Lower(text)))

\* the header patterns whose trimmed capture has more than 3 characters
LongCaptures ==
    { i \in 1..4 : TrimmedCapture(i) # None /\ Len(TrimmedCapture(i)[1]) > 3 }

\* C27: when no known site name occurs in the text, site_name is the
\* trimmed capture of the first of the four header patterns whose trimmed
\* capture is longer than 3 characters, a shorter capture being passed over,
\* and None if no pattern qualifies; such a site_name has more than 3
\* characters and no outer whitespace
C27_FirstLongCapture ==
    (pc \notin {"construct", "log_date", "site_name"} /\ NoKnownSite) =>
        /\ extraction[1].site_name =
              IF LongCaptures = {} THEN None ELSE TrimmedCapture(Min(LongCaptures))
        /\ extraction[1].site_name # None =>
              /\ Len(extraction[1].site_name[1]) > 3
              /\ Strip(extraction[1].site_name[1]) = extraction[1].site_name[1]

\* site_name is set from a later pattern on a text without a known site
\* whose first pattern captures 3 characters or fewer
C27_Witness ==
    /\ pc = "submitted_by"
    /\ NoKnownSite
    /\ TrimmedCapture(1) # None
    /\ 1 \notin LongCaptures
    /\ extraction[1].site_name # None

(***************************************************************************)
(* Signatures: texts of a few lines that name, or do not name, a manager   *)
(***************************************************************************)
SignatureLines ==
    << "Prepared by John Smith.",
       "Site Manager: Ahmed Al-Rashid.",
       "Logged by: Sara Lee.",
       "Supervisor: Omar.",
       "Poured by the night shift." >>

\* the number of lines of a signature text
MaxSignatureLines == 2

SignatureTexts ==
    { Join([ k \in 1..Len(shape) |-> SignatureLines[shape[k]] ], "\n") :
        shape \in UNION { [1..n -> 1..Len(SignatureLines)] : n \in 0..MaxSignatureLines } }

SpecSignatures == InitOn(SignatureTexts) /\ [][Next]_vars

\* the positions of the text where the labelled pattern matches
LabelledNamePositions == { p \in 1..Len(text) : ManagerPatternAt(1, text, p) # None }

\* the positions of the text where the bare "by" pattern matches
BareByPositions == { p \in 1..Len(text) : ManagerPatternAt(2, text, p) # None }

\* C28: submitted_by is the name of the leftmost match of the labelled
\* pattern if that pattern matches anywhere in the text, also when a bare
\* "by <Name>" stands earlier; else the name of the leftmost match of the
\* bare "by" pattern; else None
C28_LabelledNameWins ==
    pc \notin {"construct", "log_date", "site_name", "submitted_by"} =>
        extraction[1].submitted_by =
            IF LabelledNamePositions # {}
            THEN StrippedGroup(ManagerPatternAt(1, text, Min(LabelledNamePositions)))
            ELSE IF BareByPositions # {}
            THEN StrippedGroup(ManagerPatternAt(2, text, Min(BareByPositions)))
            ELSE None

\* submitted_by is set from a labelled match that stands after a bare
\* "by <Name>" of another name
C28_Witness ==
    /\ pc = "nlp"
    /\ LabelledNamePositions # {}
    /\ BareByPositions # {}
    /\ Min(BareByPositions) < Min(LabelledNamePositions)
    /\ extraction[1].submitted_by = Some("Ahmed Al-Rashid")

(***************************************************************************)
(* Places: task sentences that name places in several ways                 *)
(***************************************************************************)
TowerTask == "Completed slab pour at Level 4 of Tower B."

BlockTask == "Installed ducts at Zone C-1 near Block 7."

CodeTask == "Finished cable pulling for CS-12 in Riyadh."

DepotTask == "Delivered pumps to the depot in Jeddah."

OfficeTask == "Completed painting of the site office walls."

CraneTask == "Installed the tower crane base at Level 2."

PlaceTasks == << TowerTask, BlockTask, CodeTask, DepotTask, OfficeTask, CraneTask >>

\* the number of sentences of a text
MaxPlaceTasks == 2

RECURSIVE PlaceTextsOf(_)
PlaceTextsOf(n) ==
    IF n = 0 THEN {""}
    ELSE IF n = 1 THEN { PlaceTasks[i] : i \in 1..Len(PlaceTasks) }
    ELSE { d \o " " \o PlaceTasks[i] : d \in PlaceTextsOf(n - 1), i \in 1..Len(PlaceTasks) }

PlaceTexts == UNION { PlaceTextsOf(n) : n \in 0..MaxPlaceTasks }

SpecPlaces == InitOn(PlaceTexts) /\ [][Next]_vars

\* the structural patterns, by list position, that match the sentence s
StructuralMatches(s) ==
    { i \in 1..9 : LocationSearch(i, s, Lower(s)) # None }

\* the position of the leftmost match of structural pattern i in s
MatchPosition(i, s) ==
    Min({ p \in 1..Len(s) : LocationAt(i, s, Lower(s), p) # None })

\* C29: the location of every task is the match of the first structural
\* pattern of the list that matches its sentence, wherever in the sentence
\* it stands; if no structural pattern matches it is the first place entity
\* of the sentence, and None if there is none
C29_FirstListedPatternWins ==
    pc = "returned" =>
        \A k \in 1..Len(results[1].completed_tasks) :
            results[1].completed_tasks[k].location =
                IF StructuralMatches(results[1].completed_tasks[k].task_name) # {}
                THEN LocationSearch(Min(StructuralMatches(results[1].completed_tasks[k].task_name)),
                                    results[1].completed_tasks[k].task_name,
                                    Lower(results[1].completed_tasks[k].task_name))
                ELSE EntityLocation(Entities(nlp, results[1].completed_tasks[k].task_name))

\* a returned task in whose sentence a later pattern of the list matches
\* before the pattern that gives the location, and a returned task whose
\* location is a place entity
C29_Witness ==
    /\ pc = "returned"
    /\ \E k \in 1..Len(results[1].completed_tasks) :
          \E i, j \in StructuralMatches(results[1].completed_tasks[k].task_name) :
              /\ i < j
              /\ MatchPosition(j, results[1].completed_tasks[k].task_name)
                    < MatchPosition(i, results[1].completed_tasks[k].task_name)
    /\ \E k \in 1..Len(results[1].completed_tasks) :
          /\ StructuralMatches(results[1].completed_tasks[k].task_name) = {}
          /\ results[1].completed_tasks[k].location # None

(***************************************************************************)
(* src/api.py: upload_and_extract, statement by statement.  In the         *)
(* specification of this section `text` is the uploaded file, `extraction` *)
(* the locals of the handler (the decoded text, the exception raised       *)
(* inside `try`, the response) and `results` the records the engine has    *)
(* returned, one per call of extractor.extract_from_text.                  *)
(***************************************************************************)
FileNames ==
    { "log.txt", "LOG.TXT", "log.pdf", "log.docx", "log.doc", "notes.md", "txt",
      "log.txt.bak" }

\* the file's bytes: those of a text, or bytes the decoder or parser rejects
FileContents == { Some(t) : t \in RequestTexts } \cup { None }

Uploads ==
    [ filename : FileNames, content : FileContents, generate_pdf : BOOLEAN ]

EndsWith(s, k) == Len(s) >= Len(k) /\ SubSeq(s, Len(s) - Len(k) + 1, Len(s)) = k

\* line 181: filename.endswith('.txt') or ... on the lowered name
SupportedFileType(filename) ==
    EndsWith(filename, ".txt") \/ EndsWith(filename, ".pdf") \/ EndsWith(filename, ".docx")

\* HTTPException(status_code=..., detail=...), a subclass of Exception
HTTPException(status_code, detail) ==
    [ class |-> "HTTPException", status_code |-> status_code, detail |-> detail ]

\* any other exception
OtherException(what) == [ class |-> "Exception", detail |-> what ]

\* the locals of the handler
UploadLocals(t, raised, response) == [ text |-> t, raised |-> raised, response |-> response ]

\* ExtractionResponse(success=True, ...), sent with status 200
ExtractionResponse(data, with_pdf) ==
    [ status_code |-> 200, success |-> TRUE, data |-> data, has_pdf_url |-> with_pdf ]

\* the response FastAPI sends for an HTTPException that leaves the handler
ErrorResponse(exc) == [ status_code |-> exc.status_code, detail |-> exc.detail ]

InitUpload ==
    /\ nlp \in Backends
    /\ text \in Uploads
    /\ pc = "check_type"
    /\ extraction = UploadLocals(None, None, None)
    /\ sentences = << >>
    /\ incidents = << >>
    /\ incident_sentences = {}
    /\ results = << >>

\* lines 180-185: the file type is not supported; the exception is raised
\* inside the `try` of line 178
RejectFileType ==
    /\ pc = "check_type"
    /\ ~SupportedFileType(Lower(text.filename))
    /\ extraction' = UploadLocals(None, Some(HTTPException(400, "Unsupported file type")), None)
    /\ pc' = "except"
    /\ UNCHANGED << nlp, text, sentences, incidents, incident_sentences, results >>

\* lines 180-188: the file type is supported; content = await file.read()
ReadContent ==
    /\ pc = "check_type"
    /\ SupportedFileType(Lower(text.filename))
    /\ pc' = "decode"
    /\ UNCHANGED << nlp, text, extraction, sentences, incidents, incident_sentences, results >>

\* lines 191-196: content.decode('utf-8'), or the parser's text, each page
\* or paragraph followed by a newline; bytes that cannot be read raise
DecodeContent ==
    /\ pc = "decode"
    /\ IF text.content = None
       THEN /\ extraction' = UploadLocals(None, Some(OtherException("cannot read content")), None)
            /\ pc' = "except"
       ELSE /\ extraction' =
                  UploadLocals(Some(IF EndsWith(Lower(text.filename), ".txt")
                                    THEN text.content[1] ELSE text.content[1] \o "\n"),
                               None, None)
            /\ pc' = "extract"
    /\ UNCHANGED << nlp, text, sentences, incidents, incident_sentences, results >>

\* lines 199-200 with lines 85-160: the /extract handler calls the engine
\* and answers; when a PDF is asked for, the report generator may raise, and
\* the handler of lines 159-160 turns that into an HTTPException(500)
ProcessExtraction ==
    /\ pc = "extract"
    /\ results' = Append(results, ExtractFromText(nlp, extraction.text[1]))
    /\ \/ /\ extraction' = UploadLocals(extraction.text, None,
                              Some(ExtractionResponse(results'[Len(results')], text.generate_pdf)))
          /\ pc' = "responded"
       \/ /\ text.generate_pdf
          /\ extraction' = UploadLocals(extraction.text,
                              Some(HTTPException(500, "Extraction failed")), None)
          /\ pc' = "except"
    /\ UNCHANGED << nlp, text, sentences, incidents, incident_sentences >>

\* lines 202-203: except Exception as e: raise HTTPException(status_code=500, ...)
HandleException ==
    /\ pc = "except"
    /\ extraction' = UploadLocals(extraction.text, None,
                        Some(ErrorResponse(HTTPException(500, "File processing failed"))))
    /\ pc' = "responded"
    /\ UNCHANGED << nlp, text, sentences, incidents, incident_sentences, results >>

NextUpload ==
    \/ RejectFileType
    \/ ReadContent
    \/ DecodeContent
    \/ ProcessExtraction
    \/ HandleException

SpecUpload == InitUpload /\ [][NextUpload]_vars

\* C30: a file whose name does not end in .txt, .pdf or .docx is answered
\* with status 400, and the engine is not called for it
C30_UnsupportedFileGets400 ==
    (pc = "responded" /\ ~SupportedFileType(Lower(text.filename))) =>
        /\ extraction.response[1].status_code = 400
        /\ results = << >>

=============================================================================
